---- MODULE Spec2Model ----
(***************************************************************************)
(* A model of the tesei pipeline engine: the Executor (Start, innerRun,    *)
(* wireChannels), the three stage variants (sequential, parallel, fan-out) *)
(* with their router goroutines (oneToMany, manyToOne), the Thread         *)
(* (cancellation plus a capacity-1 channel of fatal errors) and the        *)
(* helper jobs (TransformJob, Slice, End, a failing ListDir, a job calling *)
(* Thread.SetError).                                                       *)
(*                                                                         *)
(* Every goroutine is a task with a program counter.  A Go select with     *)
(* several ready cases picks any of them, so each case of a select is an   *)
(* action of its own, enabled when that case can proceed.  A buffered      *)
(* channel is a bounded FIFO with a closed flag.  Messages are references  *)
(* into a heap, because the code passes *Message[T] pointers.              *)
(***************************************************************************)
EXTENDS Integers, Sequences, FiniteSets, TLC

\* ------------------------------------------------------------------------
\* Bounds of the model
\* ------------------------------------------------------------------------
\* the largest number of envelopes injected into a run
MaxItems == 2
\* the largest engine buffer size of a built executor
MaxBuf == 1
\* the engine buffer size of the runs that look at stream capacities
WideBuf == 2

\* ------------------------------------------------------------------------
\* Program constants
\* ------------------------------------------------------------------------
\* pipeline.go: var defaultBufferSize = 1
defaultBufferSize == 1
\* parallelStage.run / fanOutStage.run: make(chan *Message[T], 1)
routerChanCap == 1
\* Executor.Start: NewThread(base, 1)
errorBufferSize == 1

VARIABLES
    cfg,            \* the built pipeline and its environment (fixed in a run)
    chan,           \* channel id -> [buf, closed]
    pc,             \* task id -> program counter
    held,           \* task id -> message reference held in a local variable
    pos,            \* task id -> loop index (Slice item, oneToMany target)
    heap,           \* message reference -> contents of the Message struct
    errorChan,      \* Thread.errorChan: sequence of reported errors
    reported,       \* history: every error ever sent on Thread.errorChan
    baseCancelled,  \* the caller's context was cancelled
    execCancelled,  \* e.cancel() was called by Start
    cancelEarly,    \* history: base cancelled while some worker still ran
    doneClosed,     \* innerRun's done channel is closed
    startPc,        \* where Executor.Start is
    startRet,       \* what Executor.Start returned
    fed,            \* envelopes the external producer has injected
    received,       \* envelopes the external reader took from Output()
    panicked,       \* a send on / close of a closed channel happened
    calls,          \* job task -> number of times its handler or
                    \* predicate was invoked
    handlingAtCancel, \* history, kept in the helper-job runs (HelperRuns):
                    \* the jobs that were in their handler when the base
                    \* context was cancelled
    msgs,           \* address -> Message struct (Metadata holds a map address)
    maps,           \* address -> contents of a map[string]any
    op,             \* history: the last call made on the Message values
    pipes,          \* address -> Pipeline struct [stages (a slice), bufferSize]
    arrays,         \* address -> backing array of a []stage[T] slice
    execs,          \* the executor structs Build has returned, in order
    blog,           \* history: the builder calls made, in order
    ret             \* what the last builder call returned

vars == <<cfg, chan, pc, held, pos, heap, errorChan, reported, baseCancelled,
          execCancelled, cancelEarly, doneClosed, startPc, startRet, fed,
          received, panicked, calls, handlingAtCancel, msgs, maps, op,
          pipes, arrays, execs, blog, ret>>

NoMsg == [id |-> 0, path |-> <<>>]
NoOp == [name |-> "none"]
\* the code that calls Start, feeds Input() and reads Output()
Caller == <<"caller", 0, 0>>

\* ------------------------------------------------------------------------
\* Pipeline builder (pipeline.go)
\* ------------------------------------------------------------------------
\* Pipeline.Sequential: one sequentialStage per job
Sequential(job) == [kind |-> "seq", jobs |-> <<job>>]
\* Pipeline.Parallel: one parallelStage holding the jobs
Parallel(jobs) == [kind |-> "par", jobs |-> jobs]
\* Pipeline.FanOut: one fanOutStage running count instances of one job
FanOut(job, count) == [kind |-> "fan", jobs |-> [w \in 1..count |-> job]]

\* Pipeline.Build: built pipelines of Sequential stages that are used as a
\* job of another pipeline (an Executor is a Job); each keeps the default
\* buffer size
Built ==
    [pipeCount |-> <<"counter">>, pipeTwo |-> <<"transform", "transform">>,
     pipeEmpty |-> <<>>, pipeFatal |-> <<"listdir", "transform">>]
IsBuilt(job) == job \in DOMAIN Built

\* A run: the stage list, the buffer size, how many envelopes enter, whether
\* the caller feeds Input(), reads Output(), and may cancel the base context.
Run(stages, B, m, feed, reader, cancel) ==
    [stages |-> stages, B |-> B, m |-> m, feed |-> feed, reader |-> reader,
     cancel |-> cancel]

\* ------------------------------------------------------------------------
\* The runs explored
\* ------------------------------------------------------------------------
T == "transform"
Items == 1..MaxItems
Bufs == defaultBufferSize..MaxBuf

\* a chain of Sequential transforms driven through Input() and Output()
LinearRuns ==
    {Run(<<Sequential(T), Sequential(T)>>, B, m, TRUE, TRUE, FALSE) :
        B \in Bufs, m \in Items}

\* one Parallel stage with two branches, driven through Input() and Output()
BroadcastRuns ==
    {Run(<<Parallel(<<T, T>>)>>, B, m, TRUE, TRUE, FALSE) :
        B \in Bufs, m \in Items}

\* one FanOut stage with two workers, driven through Input() and Output()
PoolRuns ==
    {Run(<<FanOut(T, 2)>>, B, m, TRUE, TRUE, FALSE) : B \in Bufs, m \in Items}

MiddleStages == {Sequential(T), Parallel(<<T, T>>), FanOut(T, 2)}

\* Slice -> one stage of any variant -> End, never cancelled
SinkRuns ==
    {Run(<<Sequential("slice"), mid, Sequential("end")>>, B, m, FALSE, FALSE,
         FALSE) : mid \in MiddleStages, B \in Bufs, m \in Items}

\* Slice -> Sequential or FanOut -> End, where the caller may cancel
CancelRuns ==
    {Run(<<Sequential("slice"), mid, Sequential("end")>>, defaultBufferSize,
         m, FALSE, FALSE, TRUE) :
        mid \in {Sequential(T), FanOut(T, 2)}, m \in Items}

\* Slice -> a last stage of any variant, no sink and nobody reading Output()
NoSinkRuns ==
    {Run(<<Sequential("slice"), last>>, defaultBufferSize, m, FALSE, FALSE,
         c) : last \in MiddleStages, m \in Items, c \in BOOLEAN}

\* pipelines with jobs that report a fatal error
FatalRuns ==
    {Run(<<Sequential("listdir"), Sequential("end")>>, defaultBufferSize, 1,
         FALSE, FALSE, c) : c \in BOOLEAN}
    \cup {Run(<<Sequential("slice"), Sequential("seterr")>>,
              defaultBufferSize, m, FALSE, FALSE, c) :
            m \in Items, c \in BOOLEAN}
    \cup {Run(<<Parallel(<<"seterr", "seterr">>), Sequential("end")>>,
              defaultBufferSize, 1, TRUE, FALSE, c) : c \in BOOLEAN}

\* Slice -> Parallel(a, b) with a and b built pipelines of one CounterJob and
\* no sink; Output() is read by nobody, or by the caller
NestedBroadcastRuns ==
    {Run(<<Sequential("slice"), Parallel(<<"pipeCount", "pipeCount">>)>>,
         defaultBufferSize, m, FALSE, rd, FALSE) :
        m \in 1..(MaxItems + 1), rd \in BOOLEAN}

\* Slice -> a built pipeline of one CounterJob -> End, where the caller may
\* cancel
NestedSinkRuns ==
    {Run(<<Sequential("slice"), Sequential("pipeCount"), Sequential("end")>>,
         defaultBufferSize, m, FALSE, FALSE, c) : m \in Items, c \in BOOLEAN}

\* a built pipeline of two transforms as a Sequential stage after a transform
NestedLinearRuns ==
    {Run(<<Sequential(T), Sequential("pipeTwo")>>, B, m, TRUE, TRUE, FALSE) :
        B \in Bufs, m \in Items}

\* the same three transforms as three Sequential stages of one pipeline
InlinedRuns ==
    {Run(<<Sequential(T), Sequential(T), Sequential(T)>>, B, m, TRUE, TRUE,
         FALSE) : B \in Bufs, m \in Items}

\* a pipeline of one TransformJob whose handler returns an error, for every
\* message or for some, driven through Input() and Output()
ErrorRuns ==
    {Run(<<Sequential(job)>>, B, m, TRUE, TRUE, FALSE) :
        job \in {"failing", "failsome"}, B \in Bufs, m \in Items}

\* a failing stage, a stage that skips erred messages (a TransformJob, or
\* the Transform helper inside CounterJob) and a recovery stage
RecoveryRuns ==
    {Run(<<Sequential("failsome"), Sequential(mid), Sequential("recover")>>,
         defaultBufferSize, m, TRUE, TRUE, FALSE) :
        mid \in {T, "counter"}, m \in Items}

\* Slice -> two helper jobs -> End, where the caller may cancel
HelperRuns ==
    {Run(<<Sequential("slice"), Sequential(a), Sequential(b),
           Sequential("end")>>, defaultBufferSize, m, FALSE, FALSE, c) :
        a \in {"filter", "counter"}, b \in {"log", T}, m \in Items,
        c \in BOOLEAN}

\* a pipeline built with no stage; the caller injects up to MaxItems
\* envelopes, closes Input() and may cancel
EmptyRuns ==
    {Run(<<>>, B, m, TRUE, FALSE, c) :
        B \in Bufs, m \in 0..MaxItems, c \in BOOLEAN}

\* a stage whose handler fails for every envelope, followed by one of the
\* predefined jobs
ErredInputRuns ==
    {Run(<<Sequential("failing"), Sequential(job)>>, defaultBufferSize, m,
         TRUE, TRUE, FALSE) :
        job \in {T, "counter", "setmeta", "filter"}, m \in Items}

\* a job that reports a fatal error and returns without closing its output,
\* alone or as a branch, in front of End or as the last stage
InitFailRuns ==
    {Run(<<Sequential("slice"), mid, Sequential("end")>>, defaultBufferSize,
         m, FALSE, FALSE, FALSE) :
        mid \in {Sequential("initfail"), Parallel(<<"initfail", T>>)},
        m \in Items}
    \cup {Run(<<Sequential("slice"), Parallel(<<"initfail", T>>)>>,
              defaultBufferSize, m, FALSE, FALSE, FALSE) : m \in Items}

\* one stage whose handler returns a nil message for every other envelope,
\* without an error ("dropsome") or together with one ("droperr")
DropRuns ==
    {Run(<<Sequential(job)>>, defaultBufferSize, m, TRUE, TRUE, FALSE) :
        job \in {"dropsome", "droperr"}, m \in Items}

\* a stage whose handler marks every envelope with WithError(err, stage) and
\* returns it without an error (as the file writers do), followed by a
\* TransformJob with ProcessError whose handler returns an error
StageErrorRuns ==
    {Run(<<Sequential("writefile"), Sequential("refail")>>,
         defaultBufferSize, m, TRUE, TRUE, FALSE) : m \in Items}

\* Transform -> Parallel(Transform, Transform) built with WithBufferSize of
\* more than the default, fed through Input() with up to two envelopes more
\* than an engine stream holds, and read from Output()
CapacityRuns ==
    {Run(<<Sequential(T), Parallel(<<T, T>>)>>, WideBuf, m, TRUE, TRUE, FALSE) :
        m \in 1..(WideBuf + 2)}

JobRuns ==
    ErrorRuns \cup RecoveryRuns \cup HelperRuns \cup ErredInputRuns
    \cup DropRuns \cup StageErrorRuns

\* Slice -> a pipeline built with no stage, used as a job -> End
EmptyNestedRuns ==
    {Run(<<Sequential("slice"), Sequential("pipeEmpty"), Sequential("end")>>,
         defaultBufferSize, m, FALSE, FALSE, c) : m \in Items, c \in BOOLEAN}

\* a built pipeline whose first job reports a fatal error, used as a job in
\* front of End; the caller may cancel
NestedFatalRuns ==
    {Run(<<Sequential("pipeFatal"), Sequential("end")>>, defaultBufferSize,
         1, FALSE, FALSE, c) : c \in BOOLEAN}

NestRuns ==
    NestedBroadcastRuns \cup NestedSinkRuns \cup NestedLinearRuns
    \cup InlinedRuns \cup EmptyNestedRuns \cup NestedFatalRuns

Configs ==
    LinearRuns \cup BroadcastRuns \cup PoolRuns \cup SinkRuns \cup CancelRuns
    \cup NoSinkRuns \cup FatalRuns

\* ------------------------------------------------------------------------
\* Topology of a run: channels and goroutines (executor, stages)
\* ------------------------------------------------------------------------
NStages == Len(cfg.stages)
StageKind(i) == cfg.stages[i].kind
NJobs(i) == Len(cfg.stages[i].jobs)
StageIdx == 1..NStages
RoutedStages == {i \in StageIdx : StageKind(i) \in {"par", "fan"}}
ParStages == {i \in StageIdx : StageKind(i) = "par"}

\* executor.wireChannels / innerRun: stage i reads channels[i-1] and writes
\* channels[i]; channels[0] is globalIn, channels[n] is globalOut.
StageIn(i) == <<"ch", i - 1, 0>>
StageOut(i) == <<"ch", i, 0>>
ExtIn == <<"ch", 0, 0>>
\* with no stage, Output() is a stream of its own, fed by nobody but the pump
ExtOut == IF NStages = 0 THEN <<"out", 0, 0>> ELSE <<"ch", NStages, 0>>

\* the branches of a stage share one input, as the workers of a pool do
BranchInShared(i, j) == <<"pin", i, 1>>

\* parallelStage.run: inChannels[j], outChannels[j]; fanOutStage.run:
\* outChannels[j]
BranchIn(i, j) == <<"pin", i, j>>
BranchOut(i, j) == <<"pout", i, j>>

\* the jobs a stage runs: one goroutine each in a parallel or fan-out stage,
\* a direct call in a sequential stage
JobsOf(i) == {<<"job", i, j>> : j \in 1..NJobs(i)}
StageJobs == UNION {JobsOf(i) : i \in StageIdx}
StageJob(t) == cfg.stages[t[2]].jobs[t[3]]

\* the stage jobs that are built pipelines: calls of Executor.Run, each with
\* one goroutine per inner stage and the goroutine that closes done
NestCalls == {t \in StageJobs : IsBuilt(StageJob(t))}
InnerLen(t) == Len(Built[StageJob(t)])
InnerTasks ==
    UNION {{<<"inner", t[2], t[3], s>> : s \in 1..InnerLen(t)} : t \in NestCalls}
NestWaiter(t) == <<"nwait", t[2], t[3]>>
NestWaiters == {NestWaiter(t) : t \in NestCalls}
\* wireChannels of the inner executor: channels[s] between inner stages s, s+1
InnerChan(t, s) == <<"nch", t[2], t[3], s>>
InnerChans ==
    UNION {{InnerChan(t, s) : s \in 1..(InnerLen(t) - 1)} : t \in NestCalls}

ChanIds ==
    {<<"ch", i, 0>> : i \in 0..NStages} \cup {ExtOut}
    \cup UNION {{BranchIn(i, j) : j \in 1..NJobs(i)} : i \in ParStages}
    \cup UNION {{BranchOut(i, j) : j \in 1..NJobs(i)} : i \in RoutedStages}
    \cup InnerChans

\* every stream of the run takes the executor's bufferSize
CapEngine(c) == cfg.B

\* capacity: the streams of an executor take its bufferSize (the default one
\* for a pipeline built without WithBufferSize), the routers' take 1
Cap(c) ==
    CASE c[1] \in {"ch", "out"} -> cfg.B
      [] c[1] = "nch" -> defaultBufferSize
      [] OTHER -> routerChanCap

\* the goroutines that run a job's code
JobTasks == (StageJobs \ NestCalls) \cup InnerTasks
\* innerRun with no stage: the goroutine draining Input()
PumpTasks == IF NStages = 0 THEN {<<"pump", 0, 0>>} ELSE {}
\* the same goroutine inside Executor.Run of a pipeline built with no stage:
\* it ranges over e.input, which only Start creates; the receive from the
\* nil channel never proceeds, so the goroutine has no step
NestPumps == {<<"npump", t[2], t[3]>> : t \in {c \in NestCalls : InnerLen(c) = 0}}
StageTasks == {<<"stage", i, 0>> : i \in RoutedStages}
SplitTasks == {<<"split", i, 0>> : i \in ParStages}
MergeTasks == {<<"merge", i, 0>> : i \in RoutedStages}
SubTasks == UNION {{<<"msub", i, j>> : j \in 1..NJobs(i)} : i \in RoutedStages}
Tasks ==
    JobTasks \cup StageTasks \cup SplitTasks \cup MergeTasks \cup SubTasks
    \cup NestCalls \cup NestWaiters \cup PumpTasks \cup NestPumps

\* the streams a stage runs its job with (sequentialStage.run,
\* parallelStage.run, fanOutStage.run)
CallIn(t) ==
    IF StageKind(t[2]) = "par" THEN BranchIn(t[2], t[3]) ELSE StageIn(t[2])
CallOut(t) ==
    IF StageKind(t[2]) = "seq" THEN StageOut(t[2]) ELSE BranchOut(t[2], t[3])

\* the Executor.Run call an inner goroutine belongs to
CallOf(t) == <<"job", t[2], t[3]>>

JobKind(t) == IF t[1] = "inner" THEN Built[StageJob(t)][t[4]] ELSE StageJob(t)

\* every inner stage is handed the caller's in
JobInFromCaller(t) == IF t[1] # "inner" THEN CallIn(t) ELSE CallIn(CallOf(t))

\* the streams a job runs with; inside Executor.Run the first inner stage
\* reads the caller's in and the last one writes the caller's out
JobIn(t) ==
    IF t[1] # "inner" THEN CallIn(t)
    ELSE IF t[4] = 1 THEN CallIn(CallOf(t))
    ELSE InnerChan(t, t[4] - 1)
JobOut(t) ==
    IF t[1] # "inner" THEN CallOut(t)
    ELSE IF t[4] = InnerLen(CallOf(t)) THEN CallOut(CallOf(t))
    ELSE InnerChan(t, t[4])

\* innerRun: one goroutine per stage is tracked by the executor's WaitGroup
Worker(i) == IF StageKind(i) = "seq" THEN <<"job", i, 1>> ELSE <<"stage", i, 0>>
Workers == {Worker(i) : i \in StageIdx}
AllWorkersExited == \A t \in Workers : pc[t] = "exited"

\* Thread.Done(): the Thread's context derives from the base context and is
\* also cancelled by e.cancel()
Cancelled == baseCancelled \/ execCancelled

\* ------------------------------------------------------------------------
\* Channel operations
\* ------------------------------------------------------------------------
CanRecv(c) == Len(chan[c].buf) > 0
ClosedEmpty(c) == chan[c].closed /\ chan[c].buf = <<>>
\* a send proceeds when the buffer has room; on a closed channel it panics
CanSend(c) == chan[c].closed \/ Len(chan[c].buf) < Cap(c)
Pushed(ch, c, r) ==
    IF ch[c].closed THEN ch ELSE [ch EXCEPT ![c].buf = Append(@, r)]
\* a receive that leaves the envelope on the stream
PoppedKeeps(ch, c) == ch

\* <-c: the oldest envelope leaves the stream
Popped(ch, c) == [ch EXCEPT ![c].buf = Tail(@)]
\* close(c) for every c in S, by task who; closers records every close call
Closed(ch, S, who) ==
    [c \in DOMAIN ch |->
        IF c \in S
          THEN [ch[c] EXCEPT !.closed = TRUE, !.closers = Append(@, who)]
          ELSE ch[c]]

\* ------------------------------------------------------------------------
\* Message (Message struct, NewMessage, Clone)
\* ------------------------------------------------------------------------
NewMessage(n) == [id |-> n, path |-> <<>>]
EmptyContent == [data |-> <<>>, meta |-> {}, err |-> "none", errStage |-> ""]
\* Message.HasError
HasError(m) == m.err # "none"
\* Message.Clone: a new struct with the same fields and a new Metadata map
CloneRef(r, j) == [id |-> r.id, path |-> Append(r.path, j)]
Clone(m) ==
    [data |-> m.data, meta |-> {k \in m.meta : TRUE}, err |-> m.err,
     errStage |-> m.errStage]


\* ------------------------------------------------------------------------
\* Variable groups
\* ------------------------------------------------------------------------
threadVars == <<errorChan, reported, baseCancelled, execCancelled, cancelEarly>>
startVars == <<doneClosed, startPc, startRet>>
envVars == <<fed, received>>
histVars == <<calls, handlingAtCancel>>
\* Message values and Pipeline builders handled outside a pipeline run
msgVars == <<msgs, maps, op>>
builderVars == <<pipes, arrays, execs, blog, ret>>
libVars == <<msgVars, builderVars>>

\* where a goroutine starts
InitialPc(t) ==
    CASE t \in NestCalls -> "select"
      [] t \in JobTasks /\ JobKind(t) = "slice" -> "send"
      [] t \in JobTasks /\ JobKind(t) \in {"listdir", "seterr", "initfail"}
            -> "report"
      [] t[1] \in {"stage", "merge", "nwait"} -> "wait"
      [] OTHER -> "recv"

\* a job without the deferred close(out)
JobReturnsNoClose(t) ==
    /\ UNCHANGED <<chan, panicked>>
    /\ pc' = [pc EXCEPT ![t] = "exited"]
    /\ held' = [held EXCEPT ![t] = NoMsg]

\* a job that closes out itself and also has the deferred close(out)
JobReturnsClosesTwice(t) ==
    /\ chan' = Closed(Closed(chan, {JobOut(t)}, t), {JobOut(t)}, t)
    /\ panicked' = TRUE
    /\ pc' = [pc EXCEPT ![t] = "exited"]
    /\ held' = [held EXCEPT ![t] = NoMsg]

\* a job returns: its deferred close(out) runs and the goroutine that ran it
\* calls wg.Done() (innerRun's wrapper, or the deferred wg.Done of the stage)
JobReturns(t) ==
    /\ chan' = Closed(chan, {JobOut(t)}, t)
    /\ panicked' = (panicked \/ chan[JobOut(t)].closed)
    /\ pc' = [pc EXCEPT ![t] = "exited"]
    /\ held' = [held EXCEPT ![t] = NoMsg]

\* ------------------------------------------------------------------------
\* TransformJob.Run (job.go)
\* ------------------------------------------------------------------------
\* The jobs that run this loop: TransformJob values with the handlers of
\* the tests ("transform" appends to Data and writes Metadata, "failing"
\* returns an error for every message, "failsome" for some messages,
\* "recover" has ProcessError set and clears the error), and CounterJob,
\* which calls the Transform helper (the same loop without ProcessError), as
\* does SetMetaData ("setmeta").
TransformKinds ==
    {"transform", "failing", "failsome", "recover", "counter", "setmeta",
     "dropsome", "droperr", "writefile", "refail"}
IsTransform(t) == t \in JobTasks /\ JobKind(t) \in TransformKinds

\* a TransformJob that never looks at its flag
ProcessErrorNever(job) == FALSE

\* TransformJob.ProcessError; the Transform helper has no such flag
ProcessError(job) == job \in {"recover", "refail"}

\* the handler of the test jobs: msg.Data += "_<job>", msg.Metadata["job"] = job
Handler(t, m) == [m EXCEPT !.data = Append(@, t), !.meta = @ \cup {t}]

\* recoveryStage: an erred message is marked recovered and its error fields
\* are cleared, a healthy one is processed as by any other stage
RecoveryHandler(t, m) ==
    IF HasError(m)
      THEN [m EXCEPT !.data = <<<<"recovered", t[2], t[3]>>>> \o @,
                     !.err = "none", !.errStage = ""]
      ELSE Handler(t, m)

\* errorStage: the messages the handler returns an error for
Fails(t, r) ==
    \/ JobKind(t) \in {"failing", "refail"}
    \/ JobKind(t) = "failsome" /\ r.id % 2 = 1

\* Message.WithError: m.Error = err; m.ErrorStage = stage
SetError(m, err, stage) == [m EXCEPT !.err = err, !.errStage = stage]

\* the handlers that return a nil message for the message at r
ReturnsNil(t, r) == JobKind(t) \in {"dropsome", "droperr"} /\ r.id % 2 = 1

\* the nil *Message a handler may return
NilContent == [data |-> <<>>, meta |-> {}, err |-> "nil", errStage |-> ""]

\* what t.Transform(msg) returns for the message at r: the message and the
\* error
HandlerResult(t, r) ==
    CASE ReturnsNil(t, r) ->
            [msg |-> NilContent,
             err |-> IF JobKind(t) = "droperr" THEN "failed" ELSE "none"]
      [] Fails(t, r) -> [msg |-> heap[r], err |-> "failed"]
      [] JobKind(t) = "writefile" ->
            [msg |-> SetError(heap[r], "write error", "write file"),
             err |-> "none"]
      [] JobKind(t) = "recover" ->
            [msg |-> RecoveryHandler(t, heap[r]), err |-> "none"]
      [] JobKind(t) = "counter" -> [msg |-> heap[r], err |-> "none"]
      [] JobKind(t) = "setmeta" ->
            [msg |-> [heap[r] EXCEPT !.meta = @ \cup {t}], err |-> "none"]
      [] OTHER -> [msg |-> Handler(t, heap[r]), err |-> "none"]

\* the error the handler returned is not stored on the message
AfterHandlerNoError(t, r) == HandlerResult(t, r).msg

\* msg, err = t.Transform(msg); if err != nil { msg.Error = err }
AfterHandler(t, r) ==
    LET res == HandlerResult(t, r) IN
    IF res.err # "none" THEN [res.msg EXCEPT !.err = res.err] ELSE res.msg

\* if msg.Error == nil || t.ProcessError: whether the handler is invoked
Invoked(t, r) == ~HasError(heap[r]) \/ ProcessError(JobKind(t))

\* the condition inverted: the handler runs only on messages with an error
TransformedInverted(t, r) ==
    IF HasError(heap[r]) THEN [heap EXCEPT ![r] = AfterHandler(t, r)] ELSE heap

\* the nil check comes after the error check: a nil message returned with
\* an error is not dropped
DroppedUnlessError(t, r) ==
    /\ Invoked(t, r)
    /\ HandlerResult(t, r).msg = NilContent
    /\ HandlerResult(t, r).err = "none"

\* if msg == nil { continue }: checked before the error is looked at
Dropped(t, r) == Invoked(t, r) /\ HandlerResult(t, r).msg = NilContent

\* the message after the loop body up to the inner select
Transformed(t, r) ==
    IF Invoked(t, r) /\ HandlerResult(t, r).msg # NilContent
      THEN [heap EXCEPT ![r] = AfterHandler(t, r)]
      ELSE heap

\* a job is in its handler from the receive to its next step: the handler
\* runs in the step that receives the message
InHandler(t) == IsTransform(t) /\ pc[t] = "send"

\* case msg, ok := <-in (ok): the handler runs unless the message has an
\* error and ProcessError is not set
TransformRecv(t) ==
    /\ IsTransform(t) /\ pc[t] = "recv"
    /\ CanRecv(JobIn(t))
    /\ LET r == Head(chan[JobIn(t)].buf) IN
        /\ heap' = Transformed(t, r)
        /\ calls' = [calls EXCEPT ![t] = IF Invoked(t, r) THEN @ + 1 ELSE @]
        /\ held' = [held EXCEPT ![t] = IF Dropped(t, r) THEN NoMsg ELSE r]
        /\ pc' = [pc EXCEPT ![t] = IF Dropped(t, r) THEN "recv" ELSE "send"]
    /\ chan' = Popped(chan, JobIn(t))
    /\ UNCHANGED <<cfg, libVars, handlingAtCancel, pos, threadVars, startVars, envVars,
                   panicked>>

\* case msg, ok := <-in (!ok): return
TransformInClosed(t) ==
    /\ IsTransform(t) /\ pc[t] = "recv"
    /\ ClosedEmpty(JobIn(t))
    /\ JobReturns(t)
    /\ UNCHANGED <<cfg, libVars, histVars, pos, heap, threadVars, startVars, envVars>>

\* case <-ctx.Done(): return, in the outer or in the inner select
TransformCancel(t) ==
    /\ IsTransform(t) /\ pc[t] \in {"recv", "send"}
    /\ Cancelled
    /\ JobReturns(t)
    /\ UNCHANGED <<cfg, libVars, histVars, pos, heap, threadVars, startVars, envVars>>

\* case out <- msg
TransformSend(t) ==
    /\ IsTransform(t) /\ pc[t] = "send"
    /\ CanSend(JobOut(t))
    /\ chan' = Pushed(chan, JobOut(t), held[t])
    /\ panicked' = (panicked \/ chan[JobOut(t)].closed)
    /\ held' = [held EXCEPT ![t] = NoMsg]
    /\ pc' = [pc EXCEPT ![t] = "recv"]
    /\ UNCHANGED <<cfg, libVars, histVars, pos, heap, threadVars, startVars, envVars>>

\* ------------------------------------------------------------------------
\* Slice.Run, End.Run
\* ------------------------------------------------------------------------
\* case out <- NewMessage(item)
SliceSend(t) ==
    /\ t \in JobTasks /\ JobKind(t) = "slice" /\ pc[t] = "send"
    /\ pos[t] < cfg.m
    /\ CanSend(JobOut(t))
    /\ LET r == NewMessage(pos[t] + 1) IN
        /\ heap' = (r :> EmptyContent) @@ heap
        /\ chan' = Pushed(chan, JobOut(t), r)
    /\ panicked' = (panicked \/ chan[JobOut(t)].closed)
    /\ pos' = [pos EXCEPT ![t] = @ + 1]
    /\ UNCHANGED <<cfg, libVars, histVars, pc, held, threadVars, startVars, envVars>>

\* case <-ctx.Done(): return
SliceCancel(t) ==
    /\ t \in JobTasks /\ JobKind(t) = "slice" /\ pc[t] = "send"
    /\ pos[t] < cfg.m
    /\ Cancelled
    /\ JobReturns(t)
    /\ UNCHANGED <<cfg, libVars, histVars, pos, heap, threadVars, startVars, envVars>>

\* the range over Items is exhausted
SliceEnd(t) ==
    /\ t \in JobTasks /\ JobKind(t) = "slice" /\ pc[t] = "send"
    /\ pos[t] = cfg.m
    /\ JobReturns(t)
    /\ UNCHANGED <<cfg, libVars, histVars, pos, heap, threadVars, startVars, envVars>>

\* case msg, ok := <-in (ok): the message is consumed
EndRecv(t) ==
    /\ t \in JobTasks /\ JobKind(t) = "end" /\ pc[t] = "recv"
    /\ CanRecv(JobIn(t))
    /\ chan' = Popped(chan, JobIn(t))
    /\ UNCHANGED <<cfg, libVars, histVars, pc, held, pos, heap, threadVars, startVars, envVars,
                   panicked>>

EndInClosed(t) ==
    /\ t \in JobTasks /\ JobKind(t) = "end" /\ pc[t] = "recv"
    /\ ClosedEmpty(JobIn(t))
    /\ JobReturns(t)
    /\ UNCHANGED <<cfg, libVars, histVars, pos, heap, threadVars, startVars, envVars>>

EndCancel(t) ==
    /\ t \in JobTasks /\ JobKind(t) = "end" /\ pc[t] = "recv"
    /\ Cancelled
    /\ JobReturns(t)
    /\ UNCHANGED <<cfg, libVars, histVars, pos, heap, threadVars, startVars, envVars>>

\* ------------------------------------------------------------------------
\* Filter (job.go), Log.Run
\* ------------------------------------------------------------------------
\* the filter function of the job: it keeps the messages with an even id
Keeps(t, r) == r.id % 2 = 0

\* case msg, ok := <-in (ok): if filter(msg), go on to send it
FilterRecv(t) ==
    /\ t \in JobTasks /\ JobKind(t) = "filter" /\ pc[t] = "recv"
    /\ CanRecv(JobIn(t))
    /\ LET r == Head(chan[JobIn(t)].buf) IN
        IF Keeps(t, r)
          THEN /\ held' = [held EXCEPT ![t] = r]
               /\ pc' = [pc EXCEPT ![t] = "send"]
          ELSE UNCHANGED <<held, pc>>
    /\ calls' = [calls EXCEPT ![t] = @ + 1]
    /\ chan' = Popped(chan, JobIn(t))
    /\ UNCHANGED <<cfg, libVars, handlingAtCancel, pos, heap, threadVars,
                   startVars, envVars, panicked>>

FilterInClosed(t) ==
    /\ t \in JobTasks /\ JobKind(t) = "filter" /\ pc[t] = "recv"
    /\ ClosedEmpty(JobIn(t))
    /\ JobReturns(t)
    /\ UNCHANGED <<cfg, libVars, histVars, pos, heap, threadVars, startVars, envVars>>

\* case <-ctx.Done(): return, in the outer or in the inner select
FilterCancel(t) ==
    /\ t \in JobTasks /\ JobKind(t) = "filter" /\ pc[t] \in {"recv", "send"}
    /\ Cancelled
    /\ JobReturns(t)
    /\ UNCHANGED <<cfg, libVars, histVars, pos, heap, threadVars, startVars, envVars>>

\* case out <- msg
FilterSend(t) ==
    /\ t \in JobTasks /\ JobKind(t) = "filter" /\ pc[t] = "send"
    /\ CanSend(JobOut(t))
    /\ chan' = Pushed(chan, JobOut(t), held[t])
    /\ panicked' = (panicked \/ chan[JobOut(t)].closed)
    /\ held' = [held EXCEPT ![t] = NoMsg]
    /\ pc' = [pc EXCEPT ![t] = "recv"]
    /\ UNCHANGED <<cfg, libVars, histVars, pos, heap, threadVars, startVars, envVars>>

\* case msg, ok := <-in (ok): the message is printed and then sent on
LogRecv(t) ==
    /\ t \in JobTasks /\ JobKind(t) = "log" /\ pc[t] = "recv"
    /\ CanRecv(JobIn(t))
    /\ held' = [held EXCEPT ![t] = Head(chan[JobIn(t)].buf)]
    /\ pc' = [pc EXCEPT ![t] = "send"]
    /\ chan' = Popped(chan, JobIn(t))
    /\ UNCHANGED <<cfg, libVars, histVars, pos, heap, threadVars, startVars, envVars,
                   panicked>>

LogInClosed(t) ==
    /\ t \in JobTasks /\ JobKind(t) = "log" /\ pc[t] = "recv"
    /\ ClosedEmpty(JobIn(t))
    /\ JobReturns(t)
    /\ UNCHANGED <<cfg, libVars, histVars, pos, heap, threadVars, startVars, envVars>>

\* case <-ctx.Done(): return, in the outer or in the inner select
LogCancel(t) ==
    /\ t \in JobTasks /\ JobKind(t) = "log" /\ pc[t] \in {"recv", "send"}
    /\ Cancelled
    /\ JobReturns(t)
    /\ UNCHANGED <<cfg, libVars, histVars, pos, heap, threadVars, startVars, envVars>>

\* case out <- msg
LogSend(t) ==
    /\ t \in JobTasks /\ JobKind(t) = "log" /\ pc[t] = "send"
    /\ CanSend(JobOut(t))
    /\ chan' = Pushed(chan, JobOut(t), held[t])
    /\ panicked' = (panicked \/ chan[JobOut(t)].closed)
    /\ held' = [held EXCEPT ![t] = NoMsg]
    /\ pc' = [pc EXCEPT ![t] = "recv"]
    /\ UNCHANGED <<cfg, libVars, histVars, pos, heap, threadVars, startVars, envVars>>

\* ------------------------------------------------------------------------
\* Jobs that report a fatal error
\* ------------------------------------------------------------------------
\* Thread.SetError: t.errorChan <- err, a plain send on the buffered channel.
\* ListDir.processDirectory sends on ctx.Error() inside a select.  Both
\* proceed only when the buffer has room.  The job then returns and its
\* deferred close(out) runs.
ReportFatal(t) ==
    /\ t \in JobTasks /\ JobKind(t) \in {"listdir", "seterr"}
    /\ pc[t] = "report"
    /\ Len(errorChan) < errorBufferSize
    /\ errorChan' = Append(errorChan, t)
    /\ reported' = reported \cup {t}
    /\ JobReturns(t)
    /\ UNCHANGED <<cfg, libVars, histVars, pos, heap, baseCancelled, execCancelled, cancelEarly,
                   startVars, envVars>>

\* CompleteContent.Run with a client that cannot be made: Echo.init sends
\* the error on ctx.Error() and Run returns before it reaches Transform, so
\* no close(out) runs
InitFailReport(t) ==
    /\ t \in JobTasks /\ JobKind(t) = "initfail"
    /\ pc[t] = "report"
    /\ Len(errorChan) < errorBufferSize
    /\ errorChan' = Append(errorChan, t)
    /\ reported' = reported \cup {t}
    /\ pc' = [pc EXCEPT ![t] = "exited"]
    /\ UNCHANGED <<cfg, libVars, histVars, chan, held, pos, heap,
                   baseCancelled, execCancelled, cancelEarly, startVars,
                   envVars, panicked>>

\* ListDir.processDirectory: case <-ctx.Done(): return -1
ReportCancel(t) ==
    /\ t \in JobTasks /\ JobKind(t) = "listdir" /\ pc[t] = "report"
    /\ Cancelled
    /\ JobReturns(t)
    /\ UNCHANGED <<cfg, libVars, histVars, pos, heap, threadVars, startVars, envVars>>


\* ------------------------------------------------------------------------
\* oneToMany: the splitter of a parallel stage
\* ------------------------------------------------------------------------
SplitIn(s) == StageIn(s[2])
SplitOuts(s) == {BranchIn(s[2], j) : j \in 1..NJobs(s[2])}

\* the message received is sent on as it is
ForwardedOriginal(r, j) == r

\* cloned := msg.Clone(): the reference sent to target j
Forwarded(r, j) == CloneRef(r, j)

\* the loop over the targets stops after the first one
SplitTargetsOne(s) == 1

\* for _, ch := range out: the number of targets a message is sent to
SplitTargets(s) == NJobs(s[2])

\* the deferred loop closes every target channel; the goroutine ends
SplitReturns(s) ==
    /\ chan' = Closed(chan, SplitOuts(s), s)
    /\ panicked' = (panicked \/ \E c \in SplitOuts(s) : chan[c].closed)
    /\ pc' = [pc EXCEPT ![s] = "exited"]
    /\ held' = [held EXCEPT ![s] = NoMsg]

\* case msg, ok := <-in (ok)
SplitRecv(s) ==
    /\ s \in SplitTasks /\ pc[s] = "recv"
    /\ CanRecv(SplitIn(s))
    /\ held' = [held EXCEPT ![s] = Head(chan[SplitIn(s)].buf)]
    /\ chan' = Popped(chan, SplitIn(s))
    /\ pos' = [pos EXCEPT ![s] = 1]
    /\ pc' = [pc EXCEPT ![s] = "send"]
    /\ UNCHANGED <<cfg, libVars, histVars, heap, threadVars, startVars, envVars, panicked>>

SplitInClosed(s) ==
    /\ s \in SplitTasks /\ pc[s] = "recv"
    /\ ClosedEmpty(SplitIn(s))
    /\ SplitReturns(s)
    /\ UNCHANGED <<cfg, libVars, histVars, pos, heap, threadVars, startVars, envVars>>

\* case <-ctx.Done(): return, in the outer or in the inner select
SplitCancel(s) ==
    /\ s \in SplitTasks /\ pc[s] \in {"recv", "send"}
    /\ Cancelled
    /\ SplitReturns(s)
    /\ UNCHANGED <<cfg, libVars, histVars, pos, heap, threadVars, startVars, envVars>>

\* case ch <- cloned, for the target the loop is at
SplitSend(s) ==
    /\ s \in SplitTasks /\ pc[s] = "send"
    /\ LET j == pos[s]
           c == BranchIn(s[2], j)
           r == Forwarded(held[s], j)
       IN
        /\ CanSend(c)
        /\ heap' = heap @@ (r :> Clone(heap[held[s]]))
        /\ chan' = Pushed(chan, c, r)
        /\ panicked' = (panicked \/ chan[c].closed)
        /\ IF j < SplitTargets(s)
             THEN /\ pos' = [pos EXCEPT ![s] = j + 1]
                  /\ UNCHANGED <<pc, held>>
             ELSE /\ pos' = [pos EXCEPT ![s] = 0]
                  /\ pc' = [pc EXCEPT ![s] = "recv"]
                  /\ held' = [held EXCEPT ![s] = NoMsg]
    /\ UNCHANGED <<cfg, libVars, histVars, threadVars, startVars, envVars>>

\* ------------------------------------------------------------------------
\* manyToOne: the merger of a parallel or fan-out stage
\* ------------------------------------------------------------------------
\* every forwarding goroutine reads the stream of the first branch
SubInFirst(u) == BranchOut(u[2], 1)

\* go func(c <-chan *Message[T]) {...}(ch): goroutine j reads ins[j]
SubIn(u) == BranchOut(u[2], u[3])
SubOut(u) == StageOut(u[2])
SubsOf(i) == {<<"msub", i, j>> : j \in 1..NJobs(i)}

\* the output is closed as soon as one forwarding goroutine has ended
AnySubDone(i) == \E u \in SubsOf(i) : pc[u] = "exited"

\* manyToOne's wg.Wait(): every forwarding goroutine has ended
AllSubsDone(i) == \A u \in SubsOf(i) : pc[u] = "exited"

\* a forwarding goroutine ends: deferred wg.Done()
SubReturns(u) ==
    /\ pc' = [pc EXCEPT ![u] = "exited"]
    /\ held' = [held EXCEPT ![u] = NoMsg]

\* case msg, ok := <-c (ok)
SubRecv(u) ==
    /\ u \in SubTasks /\ pc[u] = "recv"
    /\ CanRecv(SubIn(u))
    /\ held' = [held EXCEPT ![u] = Head(chan[SubIn(u)].buf)]
    /\ chan' = Popped(chan, SubIn(u))
    /\ pc' = [pc EXCEPT ![u] = "send"]
    /\ UNCHANGED <<cfg, libVars, histVars, pos, heap, threadVars, startVars, envVars, panicked>>

SubInClosed(u) ==
    /\ u \in SubTasks /\ pc[u] = "recv"
    /\ ClosedEmpty(SubIn(u))
    /\ SubReturns(u)
    /\ UNCHANGED <<cfg, libVars, histVars, chan, pos, heap, threadVars, startVars, envVars,
                   panicked>>

SubCancel(u) ==
    /\ u \in SubTasks /\ pc[u] \in {"recv", "send"}
    /\ Cancelled
    /\ SubReturns(u)
    /\ UNCHANGED <<cfg, libVars, histVars, chan, pos, heap, threadVars, startVars, envVars,
                   panicked>>

\* case out <- msg
SubSend(u) ==
    /\ u \in SubTasks /\ pc[u] = "send"
    /\ CanSend(SubOut(u))
    /\ chan' = Pushed(chan, SubOut(u), held[u])
    /\ panicked' = (panicked \/ chan[SubOut(u)].closed)
    /\ held' = [held EXCEPT ![u] = NoMsg]
    /\ pc' = [pc EXCEPT ![u] = "recv"]
    /\ UNCHANGED <<cfg, libVars, histVars, pos, heap, threadVars, startVars, envVars>>

\* wg.Wait(); close(out)
MergerClose(g) ==
    /\ g \in MergeTasks /\ pc[g] = "wait"
    /\ AllSubsDone(g[2])
    /\ chan' = Closed(chan, {StageOut(g[2])}, g)
    /\ panicked' = (panicked \/ chan[StageOut(g[2])].closed)
    /\ pc' = [pc EXCEPT ![g] = "exited"]
    /\ UNCHANGED <<cfg, libVars, histVars, held, pos, heap, threadVars, startVars, envVars>>

\* ------------------------------------------------------------------------
\* parallelStage.run / fanOutStage.run
\* ------------------------------------------------------------------------
\* the stage does not wait for its jobs
StageReturnEarly(w) ==
    /\ w \in StageTasks /\ pc[w] = "wait"
    /\ pc' = [pc EXCEPT ![w] = "exited"]
    /\ UNCHANGED <<cfg, libVars, histVars, chan, held, pos, heap, threadVars, startVars,
                   envVars, panicked>>

\* the stage closes its output itself when its jobs are done, as a job does
StageReturnClosesOut(w) ==
    /\ w \in StageTasks /\ pc[w] = "wait"
    /\ \A t \in JobsOf(w[2]) : pc[t] = "exited"
    /\ pc' = [pc EXCEPT ![w] = "exited"]
    /\ chan' = Closed(chan, {StageOut(w[2])}, w)
    /\ panicked' = (panicked \/ chan[StageOut(w[2])].closed)
    /\ UNCHANGED <<cfg, libVars, histVars, held, pos, heap, threadVars, startVars,
                   envVars>>

\* wg.Wait() over the stage's jobs, then run returns and innerRun's wrapper
\* calls wg.Done()
StageReturn(w) ==
    /\ w \in StageTasks /\ pc[w] = "wait"
    /\ \A t \in JobsOf(w[2]) : pc[t] = "exited"
    /\ pc' = [pc EXCEPT ![w] = "exited"]
    /\ UNCHANGED <<cfg, libVars, histVars, chan, held, pos, heap, threadVars, startVars, envVars,
                   panicked>>


\* ------------------------------------------------------------------------
\* Executor.Run: a built pipeline run as the job of a stage
\* ------------------------------------------------------------------------
InnerOf(t) == {<<"inner", t[2], t[3], s>> : s \in 1..InnerLen(t)}

\* innerRun's last goroutine: wg.Wait(); close(done)
NestWaiterClose(w) ==
    /\ w \in NestWaiters /\ pc[w] = "wait"
    /\ \A u \in InnerOf(w) : pc[u] = "exited"
    /\ pc' = [pc EXCEPT ![w] = "exited"]
    /\ UNCHANGED <<cfg, libVars, histVars, chan, held, pos, heap, threadVars, startVars,
                   envVars, panicked>>

\* case <-done: Run returns
NestOnFinished(t) ==
    /\ t \in NestCalls /\ pc[t] = "select"
    /\ pc[NestWaiter(t)] = "exited"
    /\ pc' = [pc EXCEPT ![t] = "exited"]
    /\ UNCHANGED <<cfg, libVars, histVars, chan, held, pos, heap, threadVars, startVars,
                   envVars, panicked>>

\* case <-ctx.Done(): Run goes on to wg.Wait()
NestOnDone(t) ==
    /\ t \in NestCalls /\ pc[t] = "select"
    /\ Cancelled
    /\ pc' = [pc EXCEPT ![t] = "join"]
    /\ UNCHANGED <<cfg, libVars, histVars, chan, held, pos, heap, threadVars, startVars,
                   envVars, panicked>>

\* wg.Wait() is over: Run returns
NestJoined(t) ==
    /\ t \in NestCalls /\ pc[t] = "join"
    /\ \A u \in InnerOf(t) : pc[u] = "exited"
    /\ pc' = [pc EXCEPT ![t] = "exited"]
    /\ UNCHANGED <<cfg, libVars, histVars, chan, held, pos, heap, threadVars, startVars,
                   envVars, panicked>>

\* ------------------------------------------------------------------------
\* innerRun with no stage: go func() { for range e.input {}; close(e.output) }
\* ------------------------------------------------------------------------
\* for range e.input: a message is received and dropped
PumpRecv(p) ==
    /\ p \in PumpTasks /\ pc[p] = "recv"
    /\ CanRecv(ExtIn)
    /\ chan' = Popped(chan, ExtIn)
    /\ UNCHANGED <<cfg, libVars, histVars, pc, held, pos, heap, threadVars, startVars,
                   envVars, panicked>>

\* the goroutine ends without closing Output()
PumpInClosedNoClose(p) ==
    /\ p \in PumpTasks /\ pc[p] = "recv"
    /\ ClosedEmpty(ExtIn)
    /\ pc' = [pc EXCEPT ![p] = "exited"]
    /\ UNCHANGED <<cfg, libVars, histVars, chan, held, pos, heap, threadVars, startVars,
                   envVars, panicked>>

\* Output() is closed as soon as Input() is found empty
PumpClosesWhenEmpty(p) ==
    /\ p \in PumpTasks /\ pc[p] = "recv"
    /\ chan[ExtIn].buf = <<>>
    /\ chan' = Closed(chan, {ExtOut}, p)
    /\ panicked' = (panicked \/ chan[ExtOut].closed)
    /\ pc' = [pc EXCEPT ![p] = "exited"]
    /\ UNCHANGED <<cfg, libVars, histVars, held, pos, heap, threadVars, startVars,
                   envVars>>

\* the range ends when Input() is closed and drained: close(e.output)
PumpInClosed(p) ==
    /\ p \in PumpTasks /\ pc[p] = "recv"
    /\ ClosedEmpty(ExtIn)
    /\ chan' = Closed(chan, {ExtOut}, p)
    /\ panicked' = (panicked \/ chan[ExtOut].closed)
    /\ pc' = [pc EXCEPT ![p] = "exited"]
    /\ UNCHANGED <<cfg, libVars, histVars, held, pos, heap, threadVars, startVars,
                   envVars>>

\* ------------------------------------------------------------------------
\* Executor.Start and innerRun
\* ------------------------------------------------------------------------
NoErr == <<"none", 0, 0>>
Ret(kind, err) == [kind |-> kind, err |-> err]

\* Start up to its select: the Thread, the external streams, innerRun (which
\* wires the channels and starts one goroutine per stage; a parallel or
\* fan-out stage starts its routers and jobs as its first steps)
StartCall ==
    /\ startPc = "init"
    /\ startPc' = "select"
    /\ pc' = [t \in Tasks |-> InitialPc(t)]
    /\ UNCHANGED <<cfg, libVars, histVars, chan, held, pos, heap, threadVars, doneClosed,
                   startRet, envVars, panicked>>

\* innerRun's last goroutine: wg.Wait(); close(done)
WaiterClose ==
    /\ startPc # "init"
    /\ ~doneClosed
    /\ AllWorkersExited
    /\ doneClosed' = TRUE
    /\ UNCHANGED <<cfg, libVars, histVars, chan, pc, held, pos, heap, threadVars, startPc,
                   startRet, envVars, panicked>>

\* case err := <-ctx.Error(): e.cancel(); return the wrapped error
StartOnError ==
    /\ startPc = "select"
    /\ errorChan # <<>>
    /\ errorChan' = Tail(errorChan)
    /\ execCancelled' = TRUE
    /\ startRet' = Ret("fatal", Head(errorChan))
    /\ startPc' = "returned"
    /\ UNCHANGED <<cfg, libVars, histVars, chan, pc, held, pos, heap, reported, baseCancelled,
                   cancelEarly, doneClosed, envVars, panicked>>

\* case <-ctx.Done(): Start goes on to wg.Wait()
StartOnDone ==
    /\ startPc = "select"
    /\ Cancelled
    /\ startPc' = "join"
    /\ UNCHANGED <<cfg, libVars, histVars, chan, pc, held, pos, heap, threadVars, doneClosed,
                   startRet, envVars, panicked>>

\* wg.Wait() is over: return ctx.Context.Err()
StartJoined ==
    /\ startPc = "join"
    /\ AllWorkersExited
    /\ startRet' = Ret("cancel", NoErr)
    /\ startPc' = "returned"
    /\ UNCHANGED <<cfg, libVars, histVars, chan, pc, held, pos, heap, threadVars, doneClosed,
                   envVars, panicked>>

\* case <-done: return nil
StartOnFinished ==
    /\ startPc = "select"
    /\ doneClosed
    /\ startRet' = Ret("nil", NoErr)
    /\ startPc' = "returned"
    /\ UNCHANGED <<cfg, libVars, histVars, chan, pc, held, pos, heap, threadVars, doneClosed,
                   envVars, panicked>>

\* ------------------------------------------------------------------------
\* The caller: feeds Input(), reads Output(), cancels the base context
\* ------------------------------------------------------------------------
\* exec.Input() <- NewMessage(x)
Feed ==
    /\ cfg.feed /\ startPc # "init"
    /\ fed < cfg.m
    /\ ~chan[ExtIn].closed
    /\ Len(chan[ExtIn].buf) < Cap(ExtIn)
    /\ LET r == NewMessage(fed + 1) IN
        /\ heap' = (r :> EmptyContent) @@ heap
        /\ chan' = Pushed(chan, ExtIn, r)
    /\ fed' = fed + 1
    /\ UNCHANGED <<cfg, libVars, histVars, pc, held, pos, threadVars, startVars, received,
                   panicked>>

\* close(exec.Input()) after the last envelope
CloseInput ==
    /\ cfg.feed /\ startPc # "init"
    /\ fed = cfg.m
    /\ ~chan[ExtIn].closed
    /\ chan' = Closed(chan, {ExtIn}, Caller)
    /\ UNCHANGED <<cfg, libVars, histVars, pc, held, pos, heap, threadVars, startVars, envVars,
                   panicked>>

\* <-exec.Output()
Consume ==
    /\ cfg.reader
    /\ CanRecv(ExtOut)
    /\ received' = Append(received, Head(chan[ExtOut].buf))
    /\ chan' = Popped(chan, ExtOut)
    /\ UNCHANGED <<cfg, libVars, histVars, pc, held, pos, heap, threadVars, startVars, fed,
                   panicked>>

\* cancel() of the context given to Start
CancelBase ==
    /\ cfg.cancel
    /\ ~baseCancelled
    /\ startPc # "returned"
    /\ baseCancelled' = TRUE
    /\ cancelEarly' = ~(startPc # "init" /\ AllWorkersExited)
    /\ handlingAtCancel' =
          IF cfg \in HelperRuns THEN {t \in JobTasks : InHandler(t)} ELSE {}
    /\ UNCHANGED <<cfg, libVars, calls, chan, pc, held, pos, heap, errorChan, reported,
                   execCancelled, startVars, envVars, panicked>>

\* the state before Start is called, for a run drawn from Runs
InitOver(Runs) ==
    /\ cfg \in Runs
    /\ chan = [c \in ChanIds |->
                [buf |-> <<>>, closed |-> FALSE, closers |-> <<>>]]
    /\ pc = [t \in Tasks |-> "idle"]
    /\ held = [t \in Tasks |-> NoMsg]
    /\ pos = [t \in Tasks |-> 0]
    /\ heap = <<>>
    /\ errorChan = <<>>
    /\ reported = {}
    /\ baseCancelled = FALSE
    /\ execCancelled = FALSE
    /\ cancelEarly = FALSE
    /\ doneClosed = FALSE
    /\ startPc = "init"
    /\ startRet = Ret("none", NoErr)
    /\ fed = 0
    /\ received = <<>>
    /\ panicked = FALSE
    /\ calls = [t \in JobTasks |-> 0]
    /\ handlingAtCancel = {}
    /\ msgs = <<>>
    /\ maps = <<>>
    /\ op = NoOp
    /\ pipes = <<>>
    /\ arrays = <<>>
    /\ execs = <<>>
    /\ blog = <<>>
    /\ ret = NoOp

Init == InitOver(Configs)

Next ==
    \/ StartCall
    \/ WaiterClose
    \/ StartOnError
    \/ StartOnDone
    \/ StartJoined
    \/ StartOnFinished
    \/ Feed
    \/ CloseInput
    \/ Consume
    \/ CancelBase
    \/ \E t \in JobTasks : TransformRecv(t)
    \/ \E t \in JobTasks : TransformInClosed(t)
    \/ \E t \in JobTasks : TransformCancel(t)
    \/ \E t \in JobTasks : TransformSend(t)
    \/ \E t \in JobTasks : SliceSend(t)
    \/ \E t \in JobTasks : SliceCancel(t)
    \/ \E t \in JobTasks : SliceEnd(t)
    \/ \E t \in JobTasks : EndRecv(t)
    \/ \E t \in JobTasks : EndInClosed(t)
    \/ \E t \in JobTasks : EndCancel(t)
    \/ \E t \in JobTasks : ReportFatal(t)
    \/ \E t \in JobTasks : ReportCancel(t)
    \/ \E s \in SplitTasks : SplitRecv(s)
    \/ \E s \in SplitTasks : SplitInClosed(s)
    \/ \E s \in SplitTasks : SplitCancel(s)
    \/ \E s \in SplitTasks : SplitSend(s)
    \/ \E u \in SubTasks : SubRecv(u)
    \/ \E u \in SubTasks : SubInClosed(u)
    \/ \E u \in SubTasks : SubCancel(u)
    \/ \E u \in SubTasks : SubSend(u)
    \/ \E g \in MergeTasks : MergerClose(g)
    \/ \E w \in StageTasks : StageReturn(w)

Spec == Init /\ [][Next]_vars

\* The runs of a pipeline with no stage.  The goroutines of the program (the
\* pump, Start and the goroutine closing done) take the steps they can take;
\* the caller is not forced to feed, close or cancel.
EmptyInit == InitOver(EmptyRuns)

StartSteps ==
    StartCall \/ WaiterClose \/ StartOnDone \/ StartJoined \/ StartOnFinished

EmptyNext ==
    \/ StartCall
    \/ WaiterClose
    \/ StartOnDone
    \/ StartJoined
    \/ StartOnFinished
    \/ Feed
    \/ CloseInput
    \/ CancelBase
    \/ \E p \in PumpTasks : PumpRecv(p)
    \/ \E p \in PumpTasks : PumpInClosed(p)

EmptySpec ==
    /\ EmptyInit /\ [][EmptyNext]_vars
    /\ WF_vars(StartSteps)
    /\ WF_vars(\E p \in PumpTasks : PumpRecv(p))
    /\ WF_vars(\E p \in PumpTasks : PumpInClosed(p))

\* The runs of Sequential stages over the helper jobs
JobInit == InitOver(JobRuns)

JobNext ==
    \/ StartCall
    \/ WaiterClose
    \/ StartOnDone
    \/ StartJoined
    \/ StartOnFinished
    \/ Feed
    \/ CloseInput
    \/ Consume
    \/ CancelBase
    \/ \E t \in JobTasks : TransformRecv(t)
    \/ \E t \in JobTasks : TransformInClosed(t)
    \/ \E t \in JobTasks : TransformCancel(t)
    \/ \E t \in JobTasks : TransformSend(t)
    \/ \E t \in JobTasks : FilterRecv(t)
    \/ \E t \in JobTasks : FilterInClosed(t)
    \/ \E t \in JobTasks : FilterCancel(t)
    \/ \E t \in JobTasks : FilterSend(t)
    \/ \E t \in JobTasks : LogRecv(t)
    \/ \E t \in JobTasks : LogInClosed(t)
    \/ \E t \in JobTasks : LogCancel(t)
    \/ \E t \in JobTasks : LogSend(t)
    \/ \E t \in JobTasks : SliceSend(t)
    \/ \E t \in JobTasks : SliceCancel(t)
    \/ \E t \in JobTasks : SliceEnd(t)
    \/ \E t \in JobTasks : EndRecv(t)
    \/ \E t \in JobTasks : EndInClosed(t)
    \/ \E t \in JobTasks : EndCancel(t)

JobSpec == JobInit /\ [][JobNext]_vars

\* The runs with built pipelines used as jobs, and the runs they are
\* compared with
NestInit == InitOver(NestRuns)

NestNext ==
    \/ StartCall
    \/ WaiterClose
    \/ StartOnError
    \/ StartOnDone
    \/ StartJoined
    \/ StartOnFinished
    \/ Feed
    \/ CloseInput
    \/ Consume
    \/ CancelBase
    \/ \E t \in JobTasks : TransformRecv(t)
    \/ \E t \in JobTasks : TransformInClosed(t)
    \/ \E t \in JobTasks : TransformCancel(t)
    \/ \E t \in JobTasks : TransformSend(t)
    \/ \E t \in JobTasks : SliceSend(t)
    \/ \E t \in JobTasks : SliceCancel(t)
    \/ \E t \in JobTasks : SliceEnd(t)
    \/ \E t \in JobTasks : EndRecv(t)
    \/ \E t \in JobTasks : EndInClosed(t)
    \/ \E t \in JobTasks : EndCancel(t)
    \/ \E t \in JobTasks : ReportFatal(t)
    \/ \E t \in JobTasks : ReportCancel(t)
    \/ \E s \in SplitTasks : SplitRecv(s)
    \/ \E s \in SplitTasks : SplitInClosed(s)
    \/ \E s \in SplitTasks : SplitSend(s)
    \/ \E u \in SubTasks : SubRecv(u)
    \/ \E u \in SubTasks : SubInClosed(u)
    \/ \E u \in SubTasks : SubSend(u)
    \/ \E g \in MergeTasks : MergerClose(g)
    \/ \E w \in StageTasks : StageReturn(w)
    \/ \E w \in NestWaiters : NestWaiterClose(w)
    \/ \E t \in NestCalls : NestOnFinished(t)
    \/ \E t \in NestCalls : NestOnDone(t)
    \/ \E t \in NestCalls : NestJoined(t)

NestSpec == NestInit /\ [][NestNext]_vars

\* The runs with a job that reports a fatal error and leaves its output
\* open; nobody cancels the base context
CascadeInit == InitOver(InitFailRuns)

CascadeNext ==
    \/ StartCall
    \/ WaiterClose
    \/ StartOnError
    \/ StartOnFinished
    \/ \E t \in JobTasks : InitFailReport(t)
    \/ \E t \in JobTasks : TransformRecv(t)
    \/ \E t \in JobTasks : TransformInClosed(t)
    \/ \E t \in JobTasks : TransformCancel(t)
    \/ \E t \in JobTasks : TransformSend(t)
    \/ \E t \in JobTasks : SliceSend(t)
    \/ \E t \in JobTasks : SliceCancel(t)
    \/ \E t \in JobTasks : SliceEnd(t)
    \/ \E t \in JobTasks : EndRecv(t)
    \/ \E t \in JobTasks : EndInClosed(t)
    \/ \E t \in JobTasks : EndCancel(t)
    \/ \E s \in SplitTasks : SplitRecv(s)
    \/ \E s \in SplitTasks : SplitInClosed(s)
    \/ \E s \in SplitTasks : SplitCancel(s)
    \/ \E s \in SplitTasks : SplitSend(s)
    \/ \E u \in SubTasks : SubRecv(u)
    \/ \E u \in SubTasks : SubInClosed(u)
    \/ \E u \in SubTasks : SubCancel(u)
    \/ \E u \in SubTasks : SubSend(u)
    \/ \E g \in MergeTasks : MergerClose(g)
    \/ \E w \in StageTasks : StageReturn(w)

CascadeSpec == CascadeInit /\ [][CascadeNext]_vars

\* The runs Slice -> stage -> End that nobody cancels, with the steps such a
\* run can take: the base context is never cancelled, nothing is reported on
\* the Thread, and the caller neither feeds Input() nor reads Output().  The
\* Go scheduler runs every goroutine that can take a step.
SinkInit == Init /\ cfg \in SinkRuns

SinkNext ==
    \/ StartCall
    \/ WaiterClose
    \/ StartOnFinished
    \/ \E t \in JobTasks : TransformRecv(t)
    \/ \E t \in JobTasks : TransformInClosed(t)
    \/ \E t \in JobTasks : TransformSend(t)
    \/ \E t \in JobTasks : SliceSend(t)
    \/ \E t \in JobTasks : SliceEnd(t)
    \/ \E t \in JobTasks : EndRecv(t)
    \/ \E t \in JobTasks : EndInClosed(t)
    \/ \E s \in SplitTasks : SplitRecv(s)
    \/ \E s \in SplitTasks : SplitInClosed(s)
    \/ \E s \in SplitTasks : SplitSend(s)
    \/ \E u \in SubTasks : SubRecv(u)
    \/ \E u \in SubTasks : SubInClosed(u)
    \/ \E u \in SubTasks : SubSend(u)
    \/ \E g \in MergeTasks : MergerClose(g)
    \/ \E w \in StageTasks : StageReturn(w)

SinkSpec == SinkInit /\ [][SinkNext]_vars /\ WF_vars(SinkNext)

\* ------------------------------------------------------------------------
\* Observations used by the properties
\* ------------------------------------------------------------------------
Returned == startPc = "returned"
\* everything that has appeared on the external output so far, in order
OutSeq == received \o chan[ExtOut].buf
\* the streams the executor and the stages created, other than Output()
RunChans == ChanIds \ {ExtOut}
RouterTasks == SplitTasks \cup SubTasks
IsLinearRun == cfg \in LinearRuns
IsBroadcastRun == cfg \in BroadcastRuns
IsPoolRun == cfg \in PoolRuns
IsSinkRun == cfg \in SinkRuns
IsNoSinkRun == cfg \in NoSinkRuns
IsNestedBroadcastRun == cfg \in NestedBroadcastRuns /\ ~cfg.reader

\* ------------------------------------------------------------------------
\* C1  Fatal at-least-one-delivery: once Start has returned in a run in
\* which some job reported a fatal error, the value returned is a fatal
\* error wrapping one of the reported errors.
\* ------------------------------------------------------------------------
C1_FatalDelivered ==
    (Returned /\ reported # {}) =>
        (startRet.kind = "fatal" /\ startRet.err \in reported)

\* ------------------------------------------------------------------------
\* C2  Whenever Start has returned null, every stage has closed its output
\* and no envelope is left in a stream of the run or in the hands of a
\* splitter or merger goroutine.  Stated for the runs in which no fatal
\* error was reported and the base context was not cancelled, so that the
\* null return is the only one Start can make.
\* ------------------------------------------------------------------------
C2_NilMeansComplete ==
    (Returned /\ startRet.kind = "nil" /\ reported = {} /\ ~baseCancelled) =>
        /\ \A i \in StageIdx : chan[StageOut(i)].closed
        /\ \A c \in RunChans : chan[c].buf = <<>>
        /\ \A t \in RouterTasks : held[t] = NoMsg

\* ------------------------------------------------------------------------
\* C3  Linear FIFO: in a chain of Sequential transform stages the envelopes
\* appear on the external output in injection order, each processed by
\* every stage in stage order, and the output is closed only after the
\* input was closed and the last envelope delivered.
\* ------------------------------------------------------------------------
StageOrderData == [i \in 1..NStages |-> <<"job", i, 1>>]

C3_LinearFifo ==
    IsLinearRun =>
        /\ \A k \in 1..Len(OutSeq) :
              /\ OutSeq[k].id = k
              /\ heap[OutSeq[k]].data = StageOrderData
        /\ chan[ExtOut].closed =>
              (chan[ExtIn].closed /\ Len(OutSeq) = cfg.m)

C3_Witness ==
    /\ IsLinearRun /\ cfg.m = MaxItems
    /\ chan[ExtOut].closed
    /\ Len(received) = cfg.m
    /\ Returned


\* ------------------------------------------------------------------------
\* C4  Broadcast multiplicity: a Parallel stage with k branches fed m
\* envelopes never puts more than m envelopes of one branch on its output,
\* and when the output is closed exactly m*k envelopes were delivered on
\* it, exactly m of them from each branch.
\* ------------------------------------------------------------------------
\* the number of envelopes on the output that branch j of stage i wrote to
FromBranch(i, j) ==
    Cardinality({k \in 1..Len(OutSeq) : <<"job", i, j>> \in heap[OutSeq[k]].meta})

C4_BroadcastMultiplicity ==
    IsBroadcastRun =>
        /\ \A j \in 1..NJobs(1) : FromBranch(1, j) <= cfg.m
        /\ Len(OutSeq) <= cfg.m * NJobs(1)
        /\ chan[ExtOut].closed =>
              /\ Len(OutSeq) = cfg.m * NJobs(1)
              /\ \A j \in 1..NJobs(1) : FromBranch(1, j) = cfg.m

C4_Witness ==
    /\ IsBroadcastRun /\ cfg.m = MaxItems
    /\ chan[ExtOut].closed
    /\ Len(received) = cfg.m * NJobs(1)

\* ------------------------------------------------------------------------
\* C5  Broadcast isolation: the references the splitter hands to the
\* branches are fresh clones, never the reference it received; no reference
\* is held by two branches; and no metadata written by one branch shows on
\* an envelope held by another branch.
\* ------------------------------------------------------------------------
\* the references branch j of parallel stage i holds: in its input stream,
\* in its job, in its output stream, in its forwarding goroutine
SeqRefs(q) == {q[k] : k \in 1..Len(q)}
BranchRefs(i, j) ==
    (SeqRefs(chan[BranchIn(i, j)].buf) \cup {held[<<"job", i, j>>]}
     \cup SeqRefs(chan[BranchOut(i, j)].buf) \cup {held[<<"msub", i, j>>]})
    \ {NoMsg}

C5_BroadcastIsolation ==
    \A i \in ParStages : \A j \in 1..NJobs(i) :
        /\ held[<<"split", i, 0>>] \notin BranchRefs(i, j)
        /\ \A r \in BranchRefs(i, j) :
              /\ \A j2 \in 1..NJobs(i) \ {j} : r \notin BranchRefs(i, j2)
              /\ \A w \in heap[r].meta : (w[2] = i) => (w[3] = j)

\* both branches hold a clone of the same envelope and have written to it
C5_Witness ==
    \E i \in ParStages :
        /\ held[<<"job", i, 1>>] # NoMsg /\ held[<<"job", i, 2>>] # NoMsg
        /\ held[<<"job", i, 1>>].id = held[<<"job", i, 2>>].id
        /\ <<"job", i, 1>> \in heap[held[<<"job", i, 1>>]].meta
        /\ <<"job", i, 2>> \in heap[held[<<"job", i, 2>>]].meta

\* ------------------------------------------------------------------------
\* C6  WorkerPool conservation: in a FanOut stage no envelope is received
\* by two workers, and when the stage output is closed exactly m envelopes
\* were delivered on it, each input envelope once, each received by exactly
\* one worker.
\* ------------------------------------------------------------------------
\* the workers of stage i whose handler received envelope r
ReceiversOf(i, r) ==
    {k \in 1..Len(heap[r].data) : heap[r].data[k][2] = i}

C6_PoolConservation ==
    IsPoolRun =>
        /\ \A r \in DOMAIN heap : Cardinality(ReceiversOf(1, r)) <= 1
        /\ Len(OutSeq) <= cfg.m
        /\ chan[ExtOut].closed =>
              /\ Len(OutSeq) = cfg.m
              /\ \A n \in 1..cfg.m :
                    \E k \in 1..Len(OutSeq) :
                        /\ OutSeq[k].id = n
                        /\ Cardinality(ReceiversOf(1, OutSeq[k])) = 1

\* the run is over and the two workers each received an envelope
C6_Witness ==
    /\ IsPoolRun /\ cfg.m = MaxItems
    /\ chan[ExtOut].closed
    /\ Len(received) = cfg.m
    /\ \E a, b \in 1..Len(received) :
          /\ heap[received[a]].data = <<<<"job", 1, 1>>>>
          /\ heap[received[b]].data = <<<<"job", 1, 2>>>>

\* ------------------------------------------------------------------------
\* C7  If the base context is cancelled before all workers have finished
\* and no fatal error is reported, Start returns the cancellation error,
\* and every stage worker has exited when it returns.
\* ------------------------------------------------------------------------
C7_CancelReturnsCancel ==
    (Returned /\ cancelEarly /\ reported = {}) =>
        (startRet.kind = "cancel" /\ AllWorkersExited)

\* ------------------------------------------------------------------------
\* C8  Cancellation convergence: after the base context is cancelled there
\* is no state in which Start has not returned and no goroutine can take a
\* step.
\* ------------------------------------------------------------------------
C8_CancelConverges ==
    (baseCancelled /\ startPc \in {"select", "join"}) => ENABLED Next


\* ------------------------------------------------------------------------
\* C9  Normal termination: a run Slice -> one stage of any variant -> End
\* that is never cancelled and reports no fatal error eventually has Start
\* return null.
\* ------------------------------------------------------------------------
C9_NormalTermination ==
    IsSinkRun ~> (Returned /\ startRet.kind = "nil")

\* Start returned null from a run through a Parallel stage
C9_Witness ==
    /\ IsSinkRun /\ cfg.m = MaxItems
    /\ StageKind(2) = "par"
    /\ Returned /\ startRet.kind = "nil"
    /\ \A t \in Tasks : pc[t] = "exited"

\* ------------------------------------------------------------------------
\* C10  Mandatory sink: with no sink stage and nobody reading the external
\* output, when the last stage forwards more envelopes than the external
\* output can buffer, Start does not return unless the base context is
\* cancelled.
\* ------------------------------------------------------------------------
\* what the last stage forwards when it drops nothing
ForwardedByLast ==
    cfg.m * (IF StageKind(NStages) = "par" THEN NJobs(NStages) ELSE 1)

C10_NoSinkBlocks ==
    (IsNoSinkRun /\ ForwardedByLast > cfg.B /\ ~baseCancelled) => ~Returned

\* ------------------------------------------------------------------------
\* C11  Nested broadcast of built pipelines without a sink, as claimed: a
\* run Slice(m) -> Parallel(a, b), which nobody cancels, is for every m never
\* stuck before Start has returned, and when Start has returned each nested
\* pipeline has invoked its counting handler m times.
\* ------------------------------------------------------------------------
\* the CounterJob goroutine of nested pipeline j of stage i
CounterOf(i, j) == <<"inner", i, j, 1>>

CountedAll ==
    \A j \in 1..NJobs(NStages) : calls[CounterOf(NStages, j)] = cfg.m

C11_NestedBroadcastReturns ==
    IsNestedBroadcastRun =>
        /\ ~Returned => ENABLED NestNext
        /\ Returned => CountedAll

\* C11 as amended: the two branches can hand on what the external output,
\* the branch output streams and the forwarding goroutines of the merger
\* hold.  When 2*m envelopes fit there, the run is never stuck before Start
\* has returned and Start returns with every envelope counted once by each
\* nested pipeline; when they do not fit, Start never returns.
MergerSlack == cfg.B + NJobs(NStages) * (routerChanCap + 1)

C11_NestedBroadcastWithinSlack ==
    IsNestedBroadcastRun =>
        IF NJobs(NStages) * cfg.m <= MergerSlack
          THEN /\ ~Returned => ENABLED NestNext
               /\ Returned => (startRet.kind = "nil" /\ CountedAll)
          ELSE ~Returned

\* Start returned from a run of two items with four handler invocations
C11_Witness ==
    /\ IsNestedBroadcastRun
    /\ cfg.m = 2
    /\ Returned
    /\ calls[CounterOf(NStages, 1)] + calls[CounterOf(NStages, 2)] = 4

\* ------------------------------------------------------------------------
\* C19  Helper jobs close their output exactly once on every return path:
\* in the runs Slice -> Filter or Transform helper -> Log or TransformJob ->
\* End, cancelled at any moment or never, the output of a job has no close
\* call while the job runs and exactly one, made by the job, once it has
\* returned; no close meets a closed stream.
\* ------------------------------------------------------------------------
IsHelperRun == cfg \in HelperRuns

C19_HelperJobsCloseOnce ==
    IsHelperRun =>
        /\ ~panicked
        /\ \A t \in JobTasks :
              chan[JobOut(t)].closers = IF pc[t] = "exited" THEN <<t>> ELSE <<>>

\* a cancelled run through Filter and Log in which every job has returned
C19_Witness ==
    /\ IsHelperRun /\ baseCancelled
    /\ JobKind(<<"job", 2, 1>>) = "filter" /\ JobKind(<<"job", 3, 1>>) = "log"
    /\ \A t \in JobTasks : pc[t] = "exited"

\* ------------------------------------------------------------------------
\* C20  Empty pipeline: Start on an executor with no stage returns, and
\* returns null unless the base context was cancelled; once the caller has
\* closed Input(), Output() is eventually closed with Input() drained; no
\* envelope ever appears on Output().
\* ------------------------------------------------------------------------
IsEmptyRun == cfg \in EmptyRuns

C20_EmptyPipeline ==
    /\ []((IsEmptyRun /\ Returned /\ ~baseCancelled) => startRet.kind = "nil")
    /\ [](IsEmptyRun => OutSeq = <<>>)
    /\ IsEmptyRun ~> Returned
    /\ (IsEmptyRun /\ chan[ExtIn].closed)
          ~> (chan[ExtOut].closed /\ chan[ExtIn].buf = <<>>)

\* Start has returned null while Input() is still open, and the envelopes
\* injected so far were dropped
C20_Witness ==
    /\ IsEmptyRun /\ cfg.m = MaxItems
    /\ Returned /\ startRet.kind = "nil"
    /\ ~chan[ExtIn].closed
    /\ fed = cfg.m /\ chan[ExtIn].buf = <<>>

\* ------------------------------------------------------------------------
\* C12  Output closure on return: in a run in which no fatal error is
\* reported, whenever the run operation of a stage has returned, the out
\* stream of that stage is closed.
\* ------------------------------------------------------------------------
C12_OutputClosedOnReturn ==
    reported = {} =>
        \A i \in StageIdx :
            pc[Worker(i)] = "exited" => chan[StageOut(i)].closed

\* ------------------------------------------------------------------------
\* C13  Close-once discipline: every stream is closed at most once, only by
\* the task on its writer side, and no task sends on or closes a stream
\* that is closed already.
\* ------------------------------------------------------------------------
\* the last goroutine of the job a stage runs: the job itself, or the last
\* inner stage of a built pipeline
LastOf(t) ==
    IF t \in NestCalls THEN <<"inner", t[2], t[3], InnerLen(t)>> ELSE t

\* the task on the writer side of stream c
WriterOf(c) ==
    CASE c = ExtIn -> Caller
      [] c[1] = "out" -> <<"pump", 0, 0>>
      [] c[1] = "ch" ->
            IF StageKind(c[2]) = "seq" THEN LastOf(<<"job", c[2], 1>>)
            ELSE <<"merge", c[2], 0>>
      [] c[1] = "pin" -> <<"split", c[2], 0>>
      [] c[1] = "pout" -> LastOf(<<"job", c[2], c[3]>>)
      [] OTHER -> <<"inner", c[2], c[3], c[4]>>

C13_CloseOnce ==
    /\ ~panicked
    /\ \A c \in ChanIds :
          /\ Len(chan[c].closers) <= 1
          /\ \A k \in 1..Len(chan[c].closers) : chan[c].closers[k] = WriterOf(c)

\* a cancelled run through a Parallel stage in which every stream the run
\* created is closed
C13_Witness ==
    /\ IsNoSinkRun /\ StageKind(NStages) = "par"
    /\ baseCancelled
    /\ \A c \in ChanIds \ {ExtIn} : Len(chan[c].closers) = 1
    /\ \A t \in Tasks : pc[t] = "exited"

\* ------------------------------------------------------------------------
\* C14  Per-envelope errors never cancel the pipeline: in a pipeline of one
\* TransformJob whose handler returns errors, every envelope is forwarded in
\* order, with its error set exactly when the handler returned one; the
\* Thread is never cancelled and nothing is reported on it; the handler is
\* invoked on every envelope; the run is never stuck before Start has
\* returned, and Start returns null.
\* ------------------------------------------------------------------------
IsErrorRun == cfg \in ErrorRuns
FailingJob == <<"job", 1, 1>>

C14_ItemErrorsDoNotCancel ==
    IsErrorRun =>
        /\ ~Cancelled /\ reported = {} /\ errorChan = <<>>
        /\ \A k \in 1..Len(OutSeq) :
              /\ OutSeq[k].id = k
              /\ HasError(heap[OutSeq[k]]) <=> Fails(FailingJob, OutSeq[k])
        /\ chan[ExtOut].closed =>
              (Len(OutSeq) = cfg.m /\ calls[FailingJob] = cfg.m)
        /\ ~Returned => ENABLED JobNext
        /\ Returned => startRet.kind = "nil"

\* every envelope failed, every envelope was delivered, Start returned null
C14_Witness ==
    /\ IsErrorRun /\ JobKind(FailingJob) = "failing" /\ cfg.m = MaxItems
    /\ Len(received) = cfg.m
    /\ \A k \in 1..Len(received) : HasError(heap[received[k]])
    /\ Returned /\ startRet.kind = "nil"

\* ------------------------------------------------------------------------
\* C15  Transform skip policy: behind a stage whose handler fails for some
\* envelopes, a job without ProcessError (a TransformJob, or the Transform
\* helper) never invokes its handler on an erred envelope and forwards it
\* unchanged, and a recovery job with ProcessError invokes its handler on
\* every envelope, so that every envelope leaves the pipeline healthy, the
\* failed ones marked recovered.
\* ------------------------------------------------------------------------
IsRecoveryRun == cfg \in RecoveryRuns
SkippingJob == <<"job", 2, 1>>
RecoveryJob == <<"job", 3, 1>>
\* the envelopes of the run the failing stage returns no error for
Healthy == {n \in 1..cfg.m : ~Fails(FailingJob, NewMessage(n))}

\* Data of an envelope at the end of the pipeline
RecoveredData(r) ==
    IF Fails(FailingJob, r) THEN <<<<"recovered", 3, 1>>>>
    ELSE IF JobKind(SkippingJob) = "counter" THEN <<FailingJob, RecoveryJob>>
    ELSE <<FailingJob, SkippingJob, RecoveryJob>>

C15_SkipPolicy ==
    IsRecoveryRun =>
        /\ \A r \in DOMAIN heap :
              HasError(heap[r]) => (heap[r].data = <<>> /\ heap[r].meta = {})
        /\ calls[SkippingJob] <= Cardinality(Healthy)
        /\ \A k \in 1..Len(OutSeq) :
              /\ OutSeq[k].id = k
              /\ ~HasError(heap[OutSeq[k]])
              /\ heap[OutSeq[k]].errStage = ""
              /\ heap[OutSeq[k]].data = RecoveredData(OutSeq[k])
        /\ chan[ExtOut].closed =>
              /\ Len(OutSeq) = cfg.m
              /\ calls[SkippingJob] = Cardinality(Healthy)
              /\ calls[RecoveryJob] = cfg.m

\* a run through a skipping TransformJob is over: a failed and a healthy
\* envelope were delivered
C15_Witness ==
    /\ IsRecoveryRun /\ JobKind(SkippingJob) = T /\ cfg.m = MaxItems
    /\ chan[ExtOut].closed
    /\ Len(received) = cfg.m
    /\ \E k \in 1..Len(received) : Fails(FailingJob, received[k])
    /\ \E k \in 1..Len(received) : ~Fails(FailingJob, received[k])

\* ------------------------------------------------------------------------
\* C16  Nesting equivalence: a pipeline with a built pipeline of two
\* transforms as a Sequential stage, and the pipeline with those transforms
\* inlined at that position, put the same envelopes on the external output:
\* the injected envelopes in injection order, each processed exactly once
\* by every job in the order of the flattened stage list; no job handles
\* more envelopes than were injected, and the output is closed only after
\* all of them were delivered.
\* ------------------------------------------------------------------------
IsNestedLinearRun == cfg \in NestedLinearRuns
IsInlinedRun == cfg \in InlinedRuns

\* the number of jobs in the stages before stage i, built pipelines unfolded
RECURSIVE FlatBefore(_)
FlatBefore(i) ==
    IF i = 1 THEN 0
    ELSE FlatBefore(i - 1)
         + (IF <<"job", i - 1, 1>> \in NestCalls
              THEN InnerLen(<<"job", i - 1, 1>>) ELSE 1)

\* the position, in the unfolded stage list, of the job that wrote tag
FlatIndex(tag) == FlatBefore(tag[2]) + (IF tag[1] = "inner" THEN tag[4] ELSE 1)
FlatData(r) == [k \in 1..Len(heap[r].data) |-> FlatIndex(heap[r].data[k])]

C16_NestingEquivalence ==
    (IsNestedLinearRun \/ IsInlinedRun) =>
        /\ \A k \in 1..Len(OutSeq) :
              /\ OutSeq[k].id = k
              /\ FlatData(OutSeq[k]) = <<1, 2, 3>>
        /\ \A t \in JobTasks : calls[t] <= cfg.m
        /\ chan[ExtOut].closed =>
              /\ Len(OutSeq) = cfg.m
              /\ \A t \in JobTasks : calls[t] = cfg.m

\* the nested run is over: Executor.Run has returned, Start has returned and
\* the caller has read every envelope
C16_Witness ==
    /\ IsNestedLinearRun /\ cfg.m = MaxItems
    /\ pc[<<"job", 2, 1>>] = "exited"
    /\ Returned
    /\ chan[ExtOut].closed
    /\ Len(received) = cfg.m

\* ------------------------------------------------------------------------
\* C17  report_fatal is non-blocking: a job that calls Thread.SetError when
\* nobody will read the fatal-error buffer any more (Start is past its
\* select) is never left waiting for room in the buffer.
\* ------------------------------------------------------------------------
C17_SetErrorNeverBlocks ==
    \A t \in JobTasks :
        (JobKind(t) = "seterr" /\ pc[t] = "report"
            /\ startPc \in {"join", "returned"})
        => Len(errorChan) < errorBufferSize

\* ------------------------------------------------------------------------
\* C18  Cancellation stops a Transform job: a job that was in its handler
\* when the base context was cancelled invokes its handler on no further
\* envelope, and when it has returned its output is closed.
\* ------------------------------------------------------------------------
C18_NoHandlerAfterCancel ==
    /\ [][\A t \in handlingAtCancel : calls'[t] = calls[t]]_vars
    /\ [](\A t \in handlingAtCancel :
            pc[t] = "exited" => chan[JobOut(t)].closed)

\* ========================================================================
\* Message values (Message struct, NewMessage, WithError, Clone)
\* ========================================================================
\* Structs and maps live at addresses: two Message values may hold the
\* address of one map, and a write through either is seen through both.
MaxMsgs == 2
Keys == {"k1", "k2"}
Vals == {1, 2}
Datas == {"a", "b"}
NilMap == 0

\* everything a pipeline run owns; the Message operations leave it alone
runVars == <<cfg, chan, pc, held, pos, heap, threadVars, startVars, envVars,
             panicked, histVars>>

\* make(map[string]any)
EmptyMap == [k \in {} |-> 0]
\* m[k] = v
MapSet(m, k, v) == [x \in DOMAIN m \cup {k} |-> IF x = k THEN v ELSE m[x]]
\* delete(m, k)
MapDelete(m, k) == [x \in DOMAIN m \ {k} |-> m[x]]
\* the key/value pairs seen through msg.Metadata
MetadataOf(ms, mp, a) ==
    IF ms[a].Metadata = NilMap THEN EmptyMap ELSE mp[ms[a].Metadata]

\* NewMessage(data): generateID() gives an ID no other NewMessage gave
NewMessageCall(d) ==
    /\ Len(msgs) < MaxMsgs
    /\ maps' = Append(maps, EmptyMap)
    /\ msgs' = Append(msgs, [ID |-> Len(msgs) + 1, Data |-> d,
                             Metadata |-> Len(maps) + 1,
                             Error |-> "nil", ErrorStage |-> ""])
    /\ op' = [name |-> "NewMessage", dst |-> Len(msgs) + 1]
    /\ UNCHANGED <<runVars, builderVars>>

\* m.WithError(err, stage)
WithError(a, err, stage) ==
    /\ msgs' = [msgs EXCEPT ![a].Error = err, ![a].ErrorStage = stage]
    /\ op' = [name |-> "WithError", dst |-> a, err |-> err, stage |-> stage]
    /\ UNCHANGED <<maps, runVars, builderVars>>

\* the Metadata field of the struct Clone returns: make(map[string]any),
\* filled by the range loop over m.Metadata
CloneMetadataShared(a, fresh) == msgs[a].Metadata
CloneMetadata(a, fresh) == fresh

\* m.Clone()
MessageClone(a) ==
    /\ Len(msgs) < MaxMsgs
    /\ maps' = Append(maps, MetadataOf(msgs, maps, a))
    /\ msgs' = Append(msgs, [ID |-> msgs[a].ID, Data |-> msgs[a].Data,
                             Metadata |-> CloneMetadata(a, Len(maps) + 1),
                             Error |-> msgs[a].Error,
                             ErrorStage |-> msgs[a].ErrorStage])
    /\ op' = [name |-> "Clone", src |-> a, dst |-> Len(msgs) + 1]
    /\ UNCHANGED <<runVars, builderVars>>

\* msg.Metadata[key] = value (SetMetaData's handler)
SetMetadataKey(a, k, v) ==
    /\ msgs[a].Metadata # NilMap
    /\ maps' = [maps EXCEPT ![msgs[a].Metadata] = MapSet(@, k, v)]
    /\ op' = [name |-> "set", dst |-> a]
    /\ UNCHANGED <<msgs, runVars, builderVars>>

\* delete(msg.Metadata, key) (Merge drops the split keys of its output)
DeleteMetadataKey(a, k) ==
    /\ k \in DOMAIN MetadataOf(msgs, maps, a)
    /\ maps' = [maps EXCEPT ![msgs[a].Metadata] = MapDelete(@, k)]
    /\ op' = [name |-> "delete", dst |-> a]
    /\ UNCHANGED <<msgs, runVars, builderVars>>

\* the pipeline of the runs in which only Message values are used
IdleRuns == {Run(<<>>, defaultBufferSize, 0, FALSE, FALSE, FALSE)}

MessageInit == InitOver(IdleRuns)

MessageNext ==
    \/ \E d \in Datas : NewMessageCall(d)
    \/ \E a \in 1..Len(msgs) : WithError(a, "err", "stage")
    \/ \E a \in 1..Len(msgs) : MessageClone(a)
    \/ \E a \in 1..Len(msgs), k \in Keys, v \in Vals : SetMetadataKey(a, k, v)
    \/ \E a \in 1..Len(msgs), k \in Keys : DeleteMetadataKey(a, k)

MessageSpec == MessageInit /\ [][MessageNext]_vars

\* ------------------------------------------------------------------------
\* C21  Clone independence: e.Clone() returns a new envelope with the id,
\* data, error and error stage of e and a metadata map of its own holding
\* the key/value pairs of e; afterwards adding, changing or deleting a
\* metadata key on one envelope leaves the metadata of every other envelope
\* (the original, the clone, clones of clones) as it was.
\* ------------------------------------------------------------------------
\* the step is a Clone call
IsCloneStep == op'.name = "Clone" /\ Len(msgs') = Len(msgs) + 1
\* the step writes the metadata of the envelope at address a
WritesMetadataOf(a) == op'.name \in {"set", "delete"} /\ op'.dst = a

C21_CloneIndependence ==
    /\ [][IsCloneStep =>
            LET e == msgs[op'.src]
                n == msgs'[op'.dst]
            IN  /\ op'.dst \notin 1..Len(msgs)
                /\ n.ID = e.ID /\ n.Data = e.Data
                /\ n.Error = e.Error /\ n.ErrorStage = e.ErrorStage
                /\ n.Metadata # NilMap
                /\ \A a \in 1..Len(msgs) : msgs[a].Metadata # n.Metadata
                /\ MetadataOf(msgs', maps', op'.dst)
                       = MetadataOf(msgs, maps, op'.src)
                /\ \A a \in 1..Len(msgs) :
                       /\ msgs'[a] = msgs[a]
                       /\ MetadataOf(msgs', maps', a) = MetadataOf(msgs, maps, a)
         ]_vars
    /\ [][\A a \in 1..Len(msgs), b \in 1..Len(msgs) :
            (a # b /\ WritesMetadataOf(a)) =>
                MetadataOf(msgs', maps', b) = MetadataOf(msgs, maps, b)
         ]_vars

\* an envelope and its clone exist, the clone was made when the original
\* had metadata and an error, and a later write made their metadata differ
C21_Witness ==
    \E a \in 1..Len(msgs), b \in 1..Len(msgs) :
        /\ a < b
        /\ msgs[b].ID = msgs[a].ID
        /\ msgs[b].Error = "err"
        /\ op.name \in {"set", "delete"}
        /\ op.dst \in {a, b}
        /\ DOMAIN MetadataOf(msgs, maps, a) # {}
        /\ DOMAIN MetadataOf(msgs, maps, b) # {}
        /\ MetadataOf(msgs, maps, a) # MetadataOf(msgs, maps, b)

\* ========================================================================
\* Pipeline builder as a value (NewPipeline, Sequential, Parallel, FanOut,
\* WithBufferSize, Build, compileStages)
\* ========================================================================
\* A Go slice is [arr, len]: the address of its backing array and its
\* length; the capacity is the length of the backing array.  Address 0 is
\* the array of the empty literal []stage[T]{} (capacity 0).
MaxCalls == 3
MaxPipes == 2
JobLists == {<<>>, <<T>>, <<T, "filter">>}
FanCounts == {2}
ParallelLists == {<<T>>, <<T, "filter">>}
Sizes == {-1, 0, 2}
NoStage == [kind |-> "nil", jobs |-> <<>>]
EmptySlice == [arr |-> 0, len |-> 0]

SliceCap(arrs, sl) == IF sl.arr = 0 THEN 0 ELSE Len(arrs[sl.arr])
\* the elements s[0], ..., s[len(s)-1]
SliceElems(arrs, sl) ==
    IF sl.arr = 0 THEN <<>> ELSE SubSeq(arrs[sl.arr], 1, sl.len)

\* append(s, x): in place when the capacity allows, otherwise into a new
\* array of twice the capacity
SliceAppend(arrs, sl, x) ==
    IF sl.len < SliceCap(arrs, sl)
    THEN [arrays |-> [arrs EXCEPT ![sl.arr][sl.len + 1] = x],
          slice |-> [arr |-> sl.arr, len |-> sl.len + 1]]
    ELSE LET newCap == IF SliceCap(arrs, sl) = 0 THEN 1
                       ELSE 2 * SliceCap(arrs, sl)
             old == SliceElems(arrs, sl)
         IN  [arrays |-> Append(arrs,
                  [i \in 1..newCap |->
                      IF i <= sl.len THEN old[i]
                      ELSE IF i = sl.len + 1 THEN x ELSE NoStage]),
              slice |-> [arr |-> Len(arrs) + 1, len |-> sl.len + 1]]

\* for _, x := range xs { s = append(s, x) }
RECURSIVE AppendAll(_, _, _)
AppendAll(arrs, sl, xs) ==
    IF xs = <<>> THEN [arrays |-> arrs, slice |-> sl]
    ELSE LET r == SliceAppend(arrs, sl, Head(xs))
         IN  AppendAll(r.arrays, r.slice, Tail(xs))

\* p.stages as a list
StagesOf(ps, arrs, p) == SliceElems(arrs, ps[p].stages)
\* e.stages as a list
ExecStagesLive(ps, ex, arrs, e) == StagesOf(ps, arrs, ex[e].from)
ExecStages(ps, ex, arrs, e) == SliceElems(arrs, ex[e].stages)

BuilderCalls == Len(blog) < MaxCalls

\* NewPipeline()
NewPipelineCall ==
    /\ Len(pipes) < MaxPipes
    /\ pipes' = Append(pipes, [stages |-> EmptySlice,
                               bufferSize |-> defaultBufferSize])
    /\ ret' = [name |-> "pipeline", pipe |-> Len(pipes) + 1]
    /\ UNCHANGED <<arrays, execs, blog, runVars, msgVars>>

\* what one call appends to p.stages
SequentialAppends(jobs) == [i \in 1..Len(jobs) |-> Sequential(jobs[i])]
ParallelAppendsPerJob(jobs) == [i \in 1..Len(jobs) |-> Parallel(<<jobs[i]>>)]
ParallelAppends(jobs) == <<Parallel(jobs)>>
FanOutAppends(job, n) == <<FanOut(job, n)>>

\* p.stages = append(p.stages, ...) for each new stage; return p
AppendCall(p, name, args, new) ==
    /\ BuilderCalls
    /\ LET r == AppendAll(arrays, pipes[p].stages, new)
       IN  /\ arrays' = r.arrays
           /\ pipes' = [pipes EXCEPT ![p].stages = r.slice]
    /\ blog' = Append(blog, [pipe |-> p, name |-> name, args |-> args])
    /\ ret' = [name |-> "pipeline", pipe |-> p]
    /\ UNCHANGED <<execs, runVars, msgVars>>

\* p.Sequential(jobs...)
SequentialCall(p, jobs) ==
    AppendCall(p, "Sequential", <<jobs>>, SequentialAppends(jobs))
\* p.Parallel(jobs...)
ParallelCall(p, jobs) ==
    AppendCall(p, "Parallel", <<jobs>>, ParallelAppends(jobs))
\* p.FanOut(job, count)
FanOutCall(p, job, n) ==
    AppendCall(p, "FanOut", <<job, n>>, FanOutAppends(job, n))

\* p.WithBufferSize(size)
WithBufferSizeCall(p, size) ==
    /\ BuilderCalls
    /\ pipes' = [pipes EXCEPT ![p].bufferSize = size]
    /\ blog' = Append(blog, [pipe |-> p, name |-> "WithBufferSize",
                             args |-> <<size>>])
    /\ ret' = [name |-> "pipeline", pipe |-> p]
    /\ UNCHANGED <<arrays, execs, runVars, msgVars>>

\* p.Build(): compileStages copies p.stages into a new array of its length
BuildCall(p) ==
    /\ BuilderCalls
    /\ arrays' = Append(arrays, StagesOf(pipes, arrays, p))
    /\ execs' = Append(execs,
          [stages |-> [arr |-> Len(arrays) + 1, len |-> pipes[p].stages.len],
           bufferSize |-> pipes[p].bufferSize,
           from |-> p])
    /\ blog' = Append(blog, [pipe |-> p, name |-> "Build", args |-> <<>>])
    /\ ret' = [name |-> "executor", exec |-> Len(execs) + 1]
    /\ UNCHANGED <<pipes, runVars, msgVars>>

BuilderInit == InitOver(IdleRuns)

BuilderNext ==
    \/ NewPipelineCall
    \/ \E p \in 1..Len(pipes), jobs \in JobLists : SequentialCall(p, jobs)
    \/ \E p \in 1..Len(pipes), jobs \in ParallelLists : ParallelCall(p, jobs)
    \/ \E p \in 1..Len(pipes), n \in FanCounts : FanOutCall(p, T, n)
    \/ \E p \in 1..Len(pipes), size \in Sizes : WithBufferSizeCall(p, size)
    \/ \E p \in 1..Len(pipes) : BuildCall(p)

BuilderSpec == BuilderInit /\ [][BuilderNext]_vars

\* ------------------------------------------------------------------------
\* C22  Builder snapshot: the Executor Build returns holds the stage list
\* and buffer size the builder has at that moment, and no later call on any
\* builder changes the stage list or buffer size of an Executor already
\* built.
\* ------------------------------------------------------------------------
C22_BuilderSnapshot ==
    /\ [][Len(execs') = Len(execs) + 1 =>
            LET e == Len(execs')
                p == execs'[e].from
            IN  /\ ExecStages(pipes', execs', arrays', e)
                       = StagesOf(pipes, arrays, p)
                /\ execs'[e].bufferSize = pipes[p].bufferSize
         ]_vars
    /\ [][\A e \in 1..Len(execs) :
            /\ ExecStages(pipes', execs', arrays', e)
                   = ExecStages(pipes, execs, arrays, e)
            /\ execs'[e].bufferSize = execs[e].bufferSize
         ]_vars

\* an Executor was built from a builder that had stages, and a later call
\* has given the builder another stage list
C22_Witness ==
    \E e \in 1..Len(execs) :
        /\ ExecStages(pipes, execs, arrays, e) # <<>>
        /\ StagesOf(pipes, arrays, execs[e].from)
               # ExecStages(pipes, execs, arrays, e)

\* ------------------------------------------------------------------------
\* C23  Builder composition: the stage list of a builder is the in-order
\* concatenation of what its calls append: Sequential(j1..jk) k Sequential
\* stages in argument order, Parallel(j1..jk) one Parallel stage holding
\* the k jobs, FanOut(job, n) one FanOut stage of count n; its buffer size
\* is the default or the size of its last WithBufferSize, which changes
\* nothing else; every call returns the builder it was made on.
\* ------------------------------------------------------------------------
\* the calls made on builder p, in order
RECURSIVE CallsOn(_, _)
CallsOn(log, p) ==
    IF log = <<>> THEN <<>>
    ELSE LET rest == CallsOn(SubSeq(log, 1, Len(log) - 1), p)
             c == log[Len(log)]
         IN  IF c.pipe = p THEN Append(rest, c) ELSE rest

RECURSIVE ExpectedStages(_)
ExpectedStages(cs) ==
    IF cs = <<>> THEN <<>>
    ELSE LET c == Head(cs)
             rest == ExpectedStages(Tail(cs))
         IN  CASE c.name = "Sequential" ->
                    [i \in 1..Len(c.args[1]) |->
                        [kind |-> "seq", jobs |-> <<c.args[1][i]>>]] \o rest
               [] c.name = "Parallel" ->
                    <<[kind |-> "par", jobs |-> c.args[1]]>> \o rest
               [] c.name = "FanOut" ->
                    <<[kind |-> "fan",
                       jobs |-> [w \in 1..c.args[2] |-> c.args[1]]]>> \o rest
               [] OTHER -> rest

RECURSIVE ExpectedSize(_)
ExpectedSize(cs) ==
    IF cs = <<>> THEN defaultBufferSize
    ELSE LET c == cs[Len(cs)]
         IN  IF c.name = "WithBufferSize" THEN c.args[1]
             ELSE ExpectedSize(SubSeq(cs, 1, Len(cs) - 1))

C23_BuilderComposition ==
    /\ [](\A p \in 1..Len(pipes) :
            /\ StagesOf(pipes, arrays, p) = ExpectedStages(CallsOn(blog, p))
            /\ pipes[p].bufferSize = ExpectedSize(CallsOn(blog, p)))
    /\ [][(Len(blog') = Len(blog) + 1 /\ blog'[Len(blog')].name # "Build")
            => ret' = [name |-> "pipeline", pipe |-> blog'[Len(blog')].pipe]
         ]_vars

\* a builder on which Sequential with two jobs, Parallel with two jobs and
\* WithBufferSize were called
C23_Witness ==
    \E p \in 1..Len(pipes) :
        LET cs == CallsOn(blog, p)
        IN  /\ \E i \in 1..Len(cs) :
                  cs[i].name = "Sequential" /\ Len(cs[i].args[1]) = 2
            /\ \E i \in 1..Len(cs) :
                  cs[i].name = "Parallel" /\ Len(cs[i].args[1]) = 2
            /\ \E i \in 1..Len(cs) : cs[i].name = "WithBufferSize"
            /\ Len(StagesOf(pipes, arrays, p)) = 3
            /\ pipes[p].bufferSize # defaultBufferSize

\* ------------------------------------------------------------------------
\* C24  WithBufferSize(size) with size <= 0 is rejected or coerced to 1: no
\* Executor is built with a stream buffer size below 1.
\* ------------------------------------------------------------------------
C24_BufferSizeAtLeastOne ==
    \A e \in 1..Len(execs) : execs[e].bufferSize >= 1

\* ------------------------------------------------------------------------
\* C25  An envelope that carries an error is ignored by the predefined jobs
\* other than Log and End: behind a stage that fails for every envelope, a
\* Transform, TransformJob without ProcessError, Filter, SetMetaData or
\* CounterJob never applies its handler or predicate, and forwards every
\* envelope unchanged: when it has returned, all envelopes have left it.
\* ------------------------------------------------------------------------
IsErredInputRun == cfg \in ErredInputRuns
PredefinedJob == <<"job", 2, 1>>

C25_ErredEnvelopesIgnored ==
    IsErredInputRun =>
        /\ calls[PredefinedJob] = 0
        /\ \A k \in 1..Len(OutSeq) :
              /\ OutSeq[k].id = k
              /\ heap[OutSeq[k]] = [EmptyContent EXCEPT !.err = "failed"]
        /\ pc[PredefinedJob] = "exited" => Len(OutSeq) = cfg.m

\* ------------------------------------------------------------------------
\* C26  The merger (manyToOne) of a Parallel or FanOut stage closes the
\* stage output only after all k branch/worker output streams are closed,
\* also when the Thread is cancelled while branches are running.
\* ------------------------------------------------------------------------
C26_MergerClosesAfterBranches ==
    \A g \in MergeTasks :
        pc[g] = "exited" =>
            \A j \in 1..NJobs(g[2]) : chan[BranchOut(g[2], j)].closed

\* ------------------------------------------------------------------------
\* C27  Fatal path joins workers: when Start has returned a fatal error,
\* every stage worker of the run has exited and the external output stream
\* is closed.
\* ------------------------------------------------------------------------
C27_FatalReturnJoinsWorkers ==
    (Returned /\ startRet.kind = "fatal") =>
        (AllWorkersExited /\ chan[ExtOut].closed)

\* ------------------------------------------------------------------------
\* C28  Cancellation cascade: after a job has reported a fatal error and
\* returned without closing its output, the Executor cancels the Thread and
\* every worker, splitter and merger task of the run exits: the run never
\* comes to rest with the Thread not cancelled or with a task that has not
\* exited.
\* ------------------------------------------------------------------------
IsInitFailRun == cfg \in InitFailRuns

C28_FatalCascade ==
    (IsInitFailRun /\ reported # {} /\ ~ENABLED CascadeNext) =>
        /\ execCancelled
        /\ \A t \in Tasks : pc[t] = "exited"

\* ------------------------------------------------------------------------
\* C29  After the Thread is cancelled no job or router forwards the envelope
\* it holds: a TransformJob, Transform, Filter, Log, splitter or forwarding
\* goroutine of the merger that is at its send when the Thread is cancelled
\* leaves the send only by returning.
\* ------------------------------------------------------------------------
Forwarders ==
    {t \in JobTasks : JobKind(t) \in TransformKinds \cup {"filter", "log"}}
    \cup SplitTasks \cup SubTasks

C29_NoForwardAfterCancel ==
    [][Cancelled =>
        \A t \in Forwarders :
            pc[t] = "send" =>
                (pc'[t] \in {"send", "exited"} /\ pos'[t] = pos[t])
      ]_vars

\* ------------------------------------------------------------------------
\* C30  Broadcast per-branch order: on the output of a Parallel stage whose
\* branch jobs keep the order, two envelopes of the same branch appear in
\* the order in which their inputs arrived at the stage.
\* ------------------------------------------------------------------------
\* the branch an envelope on the stage output came through
BranchOf(r) == r.path

C30_BranchOrder ==
    IsBroadcastRun =>
        \A k1 \in 1..Len(OutSeq), k2 \in 1..Len(OutSeq) :
            (k1 < k2 /\ BranchOf(OutSeq[k1]) = BranchOf(OutSeq[k2]))
                => OutSeq[k1].id < OutSeq[k2].id

\* the run is over, every clone was delivered, and the branches interleaved:
\* a later input of one branch came out before an earlier input of the other
C30_Witness ==
    /\ IsBroadcastRun /\ cfg.m = MaxItems
    /\ chan[ExtOut].closed
    /\ Len(received) = cfg.m * NJobs(1)
    /\ \E k \in 1..(Len(received) - 1) : received[k].id > received[k + 1].id

\* ------------------------------------------------------------------------
\* C31  WorkerPool per-worker order: on the output of a FanOut stage two
\* envelopes pulled by the same worker appear in the order in which that
\* worker pulled them (the workers pull from one stream fed in input order).
\* ------------------------------------------------------------------------
\* the worker of stage i that pulled the envelope r
PulledBy(i, r) == {t \in JobsOf(i) : t \in heap[r].meta}

C31_WorkerOrder ==
    IsPoolRun =>
        \A k1 \in 1..Len(OutSeq), k2 \in 1..Len(OutSeq) :
            (/\ k1 < k2
             /\ PulledBy(1, OutSeq[k1]) # {}
             /\ PulledBy(1, OutSeq[k1]) = PulledBy(1, OutSeq[k2]))
                => OutSeq[k1].id < OutSeq[k2].id

\* the run is over and one worker pulled every envelope
C31_Witness ==
    /\ IsPoolRun /\ cfg.m = MaxItems
    /\ chan[ExtOut].closed
    /\ Len(received) = cfg.m
    /\ \E t \in JobsOf(1) :
          \A k \in 1..Len(received) : PulledBy(1, received[k]) = {t}

\* ------------------------------------------------------------------------
\* C32  Transform drop: an envelope for which the handler returns a nil
\* message, with or without an error, is not forwarded: nothing is sent on
\* the output for it, and the job goes on to the next input, which is
\* forwarded as usual.
\* ------------------------------------------------------------------------
IsDropRun == cfg \in DropRuns
DroppingJob == <<"job", 1, 1>>
\* the inputs the handler of the run returns a message for
Kept == {n \in 1..cfg.m : n % 2 = 0}

C32_TransformDrop ==
    IsDropRun =>
        /\ \A k \in 1..Len(OutSeq) :
              /\ OutSeq[k].id \in Kept
              /\ heap[OutSeq[k]] = Handler(DroppingJob, EmptyContent)
        /\ held[DroppingJob] # NoMsg => held[DroppingJob].id \in Kept
        /\ pc[DroppingJob] = "exited" /\ ~Cancelled =>
              /\ calls[DroppingJob] = cfg.m
              /\ Len(OutSeq) = Cardinality(Kept)

\* the handler returned nil together with an error for the first envelope,
\* and the second envelope was delivered
C32_Witness ==
    /\ IsDropRun /\ cfg.m = MaxItems
    /\ JobKind(DroppingJob) = "droperr"
    /\ calls[DroppingJob] = cfg.m
    /\ Len(received) = Cardinality(Kept)
    /\ Len(received) >= 1

\* ------------------------------------------------------------------------
\* C33  An error returned by a Transform handler together with an envelope
\* is attached by set_error: the forwarded envelope carries the handler's
\* error and an error_stage set with it, neither empty nor left over from
\* an earlier error.
\* ------------------------------------------------------------------------
IsHandlerErrorRun == cfg \in ErrorRuns \cup StageErrorRuns
\* the stage label an earlier stage of the run has set
EarlierStage == "write file"

C33_ErrorStageSetWithError ==
    IsHandlerErrorRun =>
        \A k \in 1..Len(OutSeq) :
            heap[OutSeq[k]].err = "failed" =>
                heap[OutSeq[k]].errStage \notin {"", EarlierStage}

\* ------------------------------------------------------------------------
\* The runs that look at stream capacities
\* ------------------------------------------------------------------------
CapacityInit == InitOver(CapacityRuns)

CapacityNext ==
    \/ StartCall
    \/ WaiterClose
    \/ StartOnFinished
    \/ Feed
    \/ CloseInput
    \/ Consume
    \/ \E t \in JobTasks : TransformRecv(t)
    \/ \E t \in JobTasks : TransformInClosed(t)
    \/ \E t \in JobTasks : TransformSend(t)
    \/ \E s \in SplitTasks : SplitRecv(s)
    \/ \E s \in SplitTasks : SplitInClosed(s)
    \/ \E s \in SplitTasks : SplitSend(s)
    \/ \E u \in SubTasks : SubRecv(u)
    \/ \E u \in SubTasks : SubInClosed(u)
    \/ \E u \in SubTasks : SubSend(u)
    \/ \E g \in MergeTasks : MergerClose(g)
    \/ \E w \in StageTasks : StageReturn(w)

CapacitySpec == CapacityInit /\ [][CapacityNext]_vars

IsCapacityRun == cfg \in CapacityRuns
\* Input(), Output() and the streams between the stages
EngineStreams == {<<"ch", i, 0>> : i \in 0..NStages}
\* the input and output streams of the branches of the Parallel stage
BranchStreams ==
    UNION {UNION {{BranchIn(i, j), BranchOut(i, j)} : j \in 1..NJobs(i)} :
              i \in ParStages}
\* the stream a task that is at its send is sending on
SendingOn(t) ==
    CASE t \in SplitTasks -> BranchIn(t[2], pos[t])
      [] t \in SubTasks -> SubOut(t)
      [] OTHER -> JobOut(t)
Senders == {t \in JobTasks \cup SplitTasks \cup SubTasks : pc[t] = "send"}
SendEnabled(t) ==
    CASE t \in SplitTasks -> ENABLED SplitSend(t)
      [] t \in SubTasks -> ENABLED SubSend(t)
      [] OTHER -> ENABLED TransformSend(t)
\* no stream of S ever holds more than n envelopes, and a sender finds room
\* on an open stream of S as long as it holds fewer than n
HasCapacity(S, n) ==
    /\ \A c \in S : Len(chan[c].buf) <= n
    /\ \A t \in Senders :
          (SendingOn(t) \in S /\ Len(chan[SendingOn(t)].buf) < n)
              => SendEnabled(t)
    /\ (fed < cfg.m /\ ~chan[ExtIn].closed /\ startPc # "init"
        /\ ExtIn \in S /\ Len(chan[ExtIn].buf) < n) => ENABLED Feed

\* ------------------------------------------------------------------------
\* C34  Stream capacities follow the engine buffer size B: Input(), Output(),
\* every stream between stages and every branch input and branch output
\* stream of a Parallel stage takes B envelopes without a reader.
\* ------------------------------------------------------------------------
C34_AllStreamsTakeB ==
    IsCapacityRun => HasCapacity(EngineStreams \cup BranchStreams, cfg.B)

\* C34 (amended)  Input(), Output() and the streams between stages take B
\* envelopes; the branch input and output streams of a Parallel stage take
\* one envelope whatever B is.
C34_EngineStreamsTakeB ==
    IsCapacityRun =>
        /\ HasCapacity(EngineStreams, cfg.B)
        /\ HasCapacity(BranchStreams, routerChanCap)

\* B envelopes wait between the stages while the splitter, with one clone on
\* a branch input, cannot place the next
C34_Witness ==
    /\ IsCapacityRun /\ cfg.B > routerChanCap
    /\ Len(chan[StageOut(1)].buf) = cfg.B
    /\ \E s \in SplitTasks :
          /\ pc[s] = "send"
          /\ Len(chan[BranchIn(s[2], pos[s])].buf) = routerChanCap
          /\ ~ENABLED SplitSend(s)

\* ------------------------------------------------------------------------
\* C35  Empty pipeline ordering: Start on an Executor with zero stages
\* returns, with no error, only after the pump has drained Input() to its
\* close and closed Output().
\* ------------------------------------------------------------------------
Pump == <<"pump", 0, 0>>
Drained == chan[ExtIn].closed /\ chan[ExtIn].buf = <<>>

C35_ReturnAfterDrain ==
    (IsEmptyRun /\ Returned /\ startRet.kind = "nil") =>
        (Drained /\ chan[ExtOut].closed)

\* C35 (amended)  Output() is closed by the pump alone, and only after it
\* has drained Input() to its close; Start does not wait for the pump: its
\* done signal is closed without any worker to join.
C35_OutputClosedAfterDrain ==
    IsEmptyRun =>
        /\ chan[ExtOut].closed =>
              (Drained /\ pc[Pump] = "exited" /\ chan[ExtOut].closers = <<Pump>>)
        /\ (startPc # "init" /\ pc[Pump] = "exited") => chan[ExtOut].closed
        /\ (Returned /\ startRet.kind = "nil") => doneClosed

\* Start has returned null while envelopes wait on Input(), which is still
\* open, and Output() is open
C35_Witness ==
    /\ IsEmptyRun
    /\ Returned /\ startRet.kind = "nil"
    /\ ~chan[ExtIn].closed /\ chan[ExtIn].buf # <<>>
    /\ ~chan[ExtOut].closed /\ pc[Pump] = "recv"

\* ------------------------------------------------------------------------
\* C36  An Executor with zero stages used as a job honors the Job contract:
\* when its Run returns it has drained the caller's input and closed the
\* caller's output, and the outer run does not come to a stop before the
\* outer Start has returned.
\* ------------------------------------------------------------------------
IsEmptyNestedRun == cfg \in EmptyNestedRuns

C36_EmptyNestedJobContract ==
    IsEmptyNestedRun =>
        /\ \A t \in NestCalls :
              pc[t] = "exited" =>
                  (chan[CallOut(t)].closed /\ ClosedEmpty(CallIn(t)))
        /\ ~ENABLED NestNext => Returned

\* ------------------------------------------------------------------------
\* C37  Nested fatal propagation: a fatal error reported inside a nested
\* pipeline is taken from the shared Thread by the outermost Start alone;
\* Start then cancels the Thread and returns the wrapped error, and the
\* run does not come to a stop before the nested Run and every inner worker
\* have exited.
\* ------------------------------------------------------------------------
IsNestedFatalRun == cfg \in NestedFatalRuns

C37_NestedFatalPropagation ==
    /\ []((IsNestedFatalRun /\ Returned /\ reported # {} /\ ~baseCancelled) =>
            /\ startRet.kind = "fatal"
            /\ startRet.err \in reported
            /\ execCancelled)
    /\ []((IsNestedFatalRun /\ reported # {} /\ ~ENABLED NestNext) =>
            \A t \in Tasks : pc[t] = "exited")
    /\ [][(IsNestedFatalRun /\ errorChan' # errorChan /\ errorChan # <<>>) =>
            (startPc = "select" /\ startPc' = "returned")]_vars

\* ------------------------------------------------------------------------
\* C38  At-most-once per branch: in every run, also one cut short by a
\* cancellation or a fatal error, no envelope is handed twice to the same
\* job and no envelope is twice on the streams or in the hands of the
\* tasks; what has appeared on Output() is, envelope by envelope, something
\* that entered the run, and each branch of a Parallel stage gets at most
\* one clone of an input envelope.
\* ------------------------------------------------------------------------
Count(seq, x) == Cardinality({k \in DOMAIN seq : seq[k] = x})
\* the places an envelope can be at: a slot of a stream, a slot of what
\* Output() has delivered, the hands of a job or a forwarding goroutine
Places ==
    UNION {{<<"stream", c, k>> : k \in DOMAIN chan[c].buf} : c \in ChanIds}
    \cup {<<"received", Caller, k>> : k \in DOMAIN received}
    \cup {<<"held", t, 0>> :
              t \in {u \in JobTasks \cup SubTasks : held[u] # NoMsg}}
EnvelopeAt(p) ==
    CASE p[1] = "received" -> received[p[3]]
      [] p[1] = "held" -> held[p[2]]
      [] OTHER -> chan[p[2]].buf[p[3]]
Entered == IF cfg.feed THEN fed ELSE cfg.m

C38_AtMostOnce ==
    /\ \A p, q \in Places : EnvelopeAt(p) = EnvelopeAt(q) => p = q
    /\ \A r \in DOMAIN heap :
          /\ r.id \in 1..Entered
          /\ \A t \in JobTasks : Count(heap[r].data, t) <= 1
    /\ \A k \in 1..Len(OutSeq) : OutSeq[k] \in DOMAIN heap
    /\ \A i \in ParStages : \A k \in 1..Len(OutSeq) :
          Len(OutSeq[k].path) = 1 /\ OutSeq[k].path[1] \in 1..NJobs(i)

\* a run with a Parallel stage was cancelled and Start has returned, some
\* clones delivered and another still held by a forwarding goroutine
C38_Witness ==
    /\ ParStages # {}
    /\ baseCancelled /\ Returned
    /\ OutSeq # <<>>
    /\ \E u \in SubTasks : held[u] # NoMsg /\ held[u].path # <<>>

\* ------------------------------------------------------------------------
\* C39  No task outlives the run blocked: once Start has returned, by any
\* of its three outcomes, the Thread's cancellation signal is set, and the
\* run does not come to a stop with a task that has not exited.
\* ------------------------------------------------------------------------
C39_NoTaskOutlivesRun ==
    /\ Returned => Cancelled
    /\ (Returned /\ ~ENABLED Next) => \A t \in Tasks : pc[t] = "exited"

\* ========================================================================
\* Message constructors and error fields (NewMessage, NewMessageWithID,
\* HasError, WithError, Clone)
\* ========================================================================
\* the errors and stage labels handed to WithError; "nil" is the nil error
Errs == {"nil", "e1"}
StageLabels == {"", "s1"}
\* the ID handed to NewMessageWithID: nothing keeps it apart from the IDs
\* NewMessage generates
GivenIds == {1}

\* HasError reads ErrorStage in place of Error
MsgHasErrorByStage(ms, a) == ms[a].ErrorStage # ""

\* Message.HasError: return m.Error != nil
MsgHasError(ms, a) == ms[a].Error # "nil"

\* NewMessageWithID(id, data)
NewMessageWithIDCall(id, d) ==
    /\ Len(msgs) < MaxMsgs
    /\ maps' = Append(maps, EmptyMap)
    /\ msgs' = Append(msgs, [ID |-> id, Data |-> d,
                             Metadata |-> Len(maps) + 1,
                             Error |-> "nil", ErrorStage |-> ""])
    /\ op' = [name |-> "NewMessageWithID", dst |-> Len(msgs) + 1]
    /\ UNCHANGED <<runVars, builderVars>>

\* &Message[T]{Data: d}, as the tests of the jobs write it: no map is made
LiteralMessage(d) ==
    /\ Len(msgs) < MaxMsgs
    /\ msgs' = Append(msgs, [ID |-> 0, Data |-> d, Metadata |-> NilMap,
                             Error |-> "nil", ErrorStage |-> ""])
    /\ op' = [name |-> "literal", dst |-> Len(msgs) + 1]
    /\ UNCHANGED <<maps, runVars, builderVars>>

\* msg.Error = err (TransformJob.Run, the recovery handlers, the tests)
AssignError(a, err) ==
    /\ msgs' = [msgs EXCEPT ![a].Error = err]
    /\ op' = [name |-> "assign", dst |-> a, err |-> err]
    /\ UNCHANGED <<maps, runVars, builderVars>>

EnvelopeInit == InitOver(IdleRuns)

EnvelopeNext ==
    \/ NewMessageCall("a")
    \/ \E id \in GivenIds : NewMessageWithIDCall(id, "b")
    \/ LiteralMessage("a")
    \/ \E a \in 1..Len(msgs), e \in Errs, st \in StageLabels :
          WithError(a, e, st)
    \/ \E a \in 1..Len(msgs) : AssignError(a, "e1")
    \/ \E a \in 1..Len(msgs) : MessageClone(a)

EnvelopeSpec == EnvelopeInit /\ [][EnvelopeNext]_vars

\* ------------------------------------------------------------------------
\* C40  Envelope error fields: WithError(err, stage) sets Error and
\* ErrorStage to what it was given, changes no other field of the envelope
\* nor any other envelope, and returns the envelope it was called on;
\* HasError() is true exactly when the error last set is not nil (false on
\* a new envelope, copied by Clone); every envelope made by NewMessage,
\* NewMessageWithID or Clone has a metadata map, an empty one of its own
\* for the two constructors.
\* ------------------------------------------------------------------------
\* the envelopes other than a are as they were
OthersUnchanged(a) ==
    \A b \in 1..Len(msgs) :
        b # a => (msgs'[b] = msgs[b]
                  /\ MetadataOf(msgs', maps', b) = MetadataOf(msgs, maps, b))

C40_EnvelopeErrorFields ==
    /\ [][op'.name = "WithError" =>
            LET a == op'.dst IN
            /\ msgs'[a].Error = op'.err
            /\ msgs'[a].ErrorStage = op'.stage
            /\ msgs'[a].ID = msgs[a].ID /\ msgs'[a].Data = msgs[a].Data
            /\ msgs'[a].Metadata = msgs[a].Metadata
            /\ maps' = maps /\ Len(msgs') = Len(msgs)
            /\ OthersUnchanged(a)
            /\ MsgHasError(msgs', a) = (op'.err # "nil")
         ]_vars
    /\ [][op'.name = "assign" =>
            MsgHasError(msgs', op'.dst) = (op'.err # "nil")]_vars
    /\ [][(op'.name \in {"NewMessage", "NewMessageWithID", "Clone"}
           /\ Len(msgs') = Len(msgs) + 1) =>
            LET n == msgs'[op'.dst] IN
            /\ n.Metadata # NilMap
            /\ \A b \in 1..Len(msgs) : msgs[b].Metadata # n.Metadata
            /\ op'.name # "Clone" =>
                  /\ MetadataOf(msgs', maps', op'.dst) = EmptyMap
                  /\ ~MsgHasError(msgs', op'.dst)
                  /\ n.ErrorStage = ""
            /\ op'.name = "Clone" =>
                  MsgHasError(msgs', op'.dst) = MsgHasError(msgs, op'.src)
         ]_vars

\* WithError was called with a nil error and a stage on the clone of an
\* envelope made without a map, which had an error assigned without a stage
C40_Witness ==
    /\ op.name = "WithError" /\ op.err = "nil" /\ op.stage = "s1"
    /\ msgs[op.dst].Metadata # NilMap
    /\ \E a \in 1..Len(msgs) :
          /\ msgs[a].Metadata = NilMap
          /\ msgs[a].ID = msgs[op.dst].ID
          /\ MsgHasError(msgs, a) /\ msgs[a].ErrorStage = ""

====
